---------------------------- MODULE Spec2Model ----------------------------
(***************************************************************************)
(* Model of the vnai quota / telemetry subsystem of the repository:        *)
(*   - Guardian (beam/quota.py): sliding-window rate limiter               *)
(*   - optimize wrapper (beam/quota.py): execution guard                   *)
(*   - Collector (beam/metrics.py): metric buffering                       *)
(*   - Conduit (flow/relay.py): telemetry relay                            *)
(*                                                                         *)
(* Every method is modelled as the sequence of its shared-memory steps,    *)
(* executed by a thread `self`; a thread's position is its program         *)
(* counter.  Time is the integer clock `now` (seconds), advanced by Tick.  *)
(* The components are composed through their call interfaces: a call of    *)
(* collector.record made by the Guardian or by the wrapper is logged in    *)
(* `emitted` (the records handed over, in order), and the Collector and    *)
(* the Conduit are exercised by their own specifications with the same     *)
(* record shapes as inputs.                                                *)
(***************************************************************************)
EXTENDS Integers, Sequences, FiniteSets, TLC

(***************************************************************************)
(* Bounds of the model.                                                    *)
(***************************************************************************)
MaxCalls == 5        \* calls of verify by the single caller in one run
MaxTicks == 5        \* clock advances in one single-caller run
MaxCallsMT == 3      \* calls of verify in one run of the concurrent callers
MaxTicksMT == 1      \* clock advances in one run of the concurrent callers
MaxCallsU == 5       \* calls of verify and usage by the single caller in one run
MaxTicksU == 4       \* clock advances in one run with verify and usage calls
MaxCallsW == 4       \* invocations of the wrapped function in one run
MaxTicksW == 2       \* clock advances in one run of the wrapped function
MaxRetries == 2      \* largest max_retries argument given to optimize
LoopThreshold == 2   \* loop_threshold argument given to optimize
ContentTriggerThreshold == 1   \* content_trigger_threshold argument
Epoch == 7200        \* time.time() when the process starts
MaxRecords == 2      \* records enqueued into the Conduit in one concurrent run
BufferSize == 2      \* buffer_size the Conduit is constructed with
BufferSizeT == 3     \* buffer_size of the Conduit whose triggers are examined
MaxRecordsT == 3     \* records enqueued in one run of that Conduit
MaxRecordsQ == 1     \* queue is called until this many records were enqueued
MaxDispatches == 12  \* dispatch calls in one run with every transmission failing
MaxMetrics == 2      \* calls of Collector.record in one run
MaxMetricsS == 4     \* calls of Collector.record by a single caller
MaxCallsM == 1       \* verify calls in one run of the Monitor's process
MaxTicksM == 1       \* clock advances in one run of the Monitor's process
MaxMetricsM == 1     \* record calls in one run of the Monitor's process
MaxChecks == 2       \* check_health calls in one run
MaxTagged == 1       \* items a Buffer caller may give a category: the first ones
MaxRecordsE == 2     \* records enqueued in one run of the caller that also calls configure
MaxRecordsS == 3     \* records enqueued in one run of the sequential Conduit caller
MaxRecordsL == 2     \* records enqueued in one run beside the periodic sync thread
MaxRetryCalls == 2   \* retry_failed calls in one run of the sequential Conduit caller
MetricsBufferSize == 2   \* thresholds["buffer_size"] the Collector runs with
MinLimit == 2        \* per-minute limit configured for the modelled resource
HourLimit == 3       \* per-hour limit configured for the modelled resource
DefaultMinLimit == 1   \* per-minute limit of resource_limits["default"]
DefaultHourLimit == 2  \* per-hour limit of resource_limits["default"]
MaxCallsRT == 4      \* calls of verify and usage in one run over two resource types
MaxTicksRT == 2      \* clock advances in one run over two resource types

(***************************************************************************)
(* Program constants.                                                      *)
(***************************************************************************)
MinuteWindow == 60       \* quota.py:65  minute_cutoff = current_time - 60
HourWindow == 3600       \* quota.py:98  hour_cutoff = current_time - 3600
TimeWindow == 5          \* quota.py:225 time_window=5
AdCooldown == 150        \* quota.py:225 ad_cooldown=150
BackoffFactor == 2       \* quota.py:226 backoff_factor=2
SessionTimeout == 1800   \* quota.py:294 session_timeout = 1800
BufferMaxSize == 1000    \* queue.py:27  self.max_size = 1000
BackupEvery == 100       \* queue.py:96  if len(self.data) % 100 == 0
StatusHistoryMax == 10   \* pulse.py:81  if len(self.status_history) > 10
HighUsagePercent == 80   \* pulse.py:60  high_usage = resource_usage > 80
FailedQueueMax == 10     \* relay.py:324 if len(self.failed_queue) > 10

\* The clock advances the model takes: they reach t = 1, 2, 59, 60, 61 and
\* 3599, 3600, 3601 (the window borders) within MaxTicks advances.
TickSteps == {1, 58, 3540}

\* The clock advances taken around the wrapped function: within time_window
\* (1), exactly time_window (5), past ad_cooldown and the minute window but within the
\* session (200), to the last second of a session (1799), and past
\* session_timeout (3540).
TickStepsW == {1, 5, 200, 1799, 3540}

Resources == {"X"}

\* every resource type a caller may name: "X" has its own entry in
\* resource_limits, "Y" has none
ResourceTypes == {"X", "Y"}
\* the resource type of a call that names none: verify(operation_id) and
\* usage() have resource_type="default"
DefaultType == "default"
Callers == {"t1", "t2"}
MainThread == "t1"
\* threads started by the Conduit: the periodic sync thread, and the threads
\* _check_triggers starts (a new thread each time: the first one not running)
PeriodicThread == "d1"
TriggerThreads == <<"d2", "d3">>
Dispatchers == {PeriodicThread} \cup {TriggerThreads[j] : j \in DOMAIN TriggerThreads}
Threads == Callers \cup Dispatchers
\* the thread Buffer._start_backup_thread starts
BackupThread == "b1"
BufferThreads == Callers \cup {BackupThread}
Categories == {"function_calls", "api_requests", "rate_limits"}
\* the keys of Collector.metrics, in the order the dictionary was built
KindOrder == <<"function", "rate_limit", "request", "error">>
Kinds == {KindOrder[k] : k \in DOMAIN KindOrder}

VARIABLES
    now,             \* time.time()
    ticks,           \* number of clock advances so far (bounds the run)
    calls,           \* number of calls started so far (bounds the run)
    usage_counters,  \* Guardian.usage_counters[resource][window]: timestamps
    gpc,             \* per thread: position inside Guardian.verify / usage
    gl,              \* per thread: locals of the running Guardian method
    gres,            \* per thread: outcome of its last Guardian call
    accepted,        \* history: timestamps of the verify calls that returned True
    emitted,         \* per thread: records handed to collector.record by its call
    \* closure state of one function wrapped by optimize
    max_retries,                  \* the max_retries argument of the decoration
    call_history,
    last_ad_time,
    consecutive_loop_detections,
    session_displayed,
    session_start_time,
    wpc,             \* per thread: position inside the wrapper
    wl,              \* per thread: locals of the running wrapper invocation
    wres,            \* per thread: how its last wrapper invocation ended
    shown,           \* history: times at which promotional content was presented
    invoked,         \* history: current_time of every wrapper invocation so far
    passes,          \* history: what each pass through loop detection found
    \* Conduit (flow/relay.py)
    webhook_url,     \* "None" or the configured endpoint
    buffer_size,     \* Conduit.buffer_size, as given to the constructor
    buffer,          \* Conduit.buffer: category -> records
    rlock,           \* Conduit.lock: "none" or the thread holding it
    last_sync_time,
    sync_count,
    failed_queue,
    rpc,             \* per thread: position inside a Conduit method
    rl,              \* per thread: locals of the running Conduit method
    rres,            \* per thread: what its last Conduit call returned
    payloads,        \* history: the payloads built by dispatch, in build order
    next_id,         \* history: identity given to the next record enqueued
    retry_calls,     \* number of retry_failed calls started (bounds the run)
    \* Collector (beam/metrics.py)
    lists,           \* the list objects the Collector has created, by identity
    metrics,         \* Collector.metrics: kind -> identity of its current list
    function_count,
    cpc,             \* per thread: position inside record / _send_metrics
    cl,              \* per thread: locals of the running Collector method
    recorded,        \* history: the metrics passed to record, in call order
    \* Conduit.queue (flow/relay.py)
    qpc,             \* per thread: position inside Conduit.queue
    ql,              \* per thread: locals of its queue call, and what it returned
    \* Buffer (flow/queue.py)
    bdata,           \* Buffer.data: the category of each item ("None" when it has none)
    block,           \* Buffer.lock: "none" or the thread holding it
    bpc,             \* per thread: position inside a Buffer method
    bl,              \* per thread: locals of the running Buffer method
    bres,            \* per thread: what its last Buffer call returned
    \* Monitor (beam/pulse.py)
    health_status,
    error_count,
    warning_count,
    status_history,
    last_check,
    mpc,             \* per thread: position inside check_health
    ml,              \* per thread: locals of the running check_health
    checked,         \* history: how many metrics had been recorded at each check
    \* vn30_expand_contract / vn30_abbrev_contract (core/utils/parser.py)
    today,           \* the reference date, as year and month
    abbrev,          \* the abbreviation given to vn30_expand_contract
    full,            \* what vn30_expand_contract returned or raised
    back,            \* what vn30_abbrev_contract made of that code
    ppc              \* position of the caller of the two functions

gvars == <<now, ticks, calls, usage_counters, gpc, gl, gres, accepted, emitted>>
wvars == <<max_retries, call_history, last_ad_time, consecutive_loop_detections,
           session_displayed, session_start_time, wpc, wl, wres, shown, invoked,
           passes>>
rvars == <<webhook_url, buffer_size, buffer, rlock, last_sync_time, sync_count, failed_queue,
           rpc, rl, rres, payloads, next_id, retry_calls>>
cvars == <<lists, metrics, function_count, cpc, cl, recorded>>
qvars == <<qpc, ql>>
bvars == <<bdata, block, bpc, bl, bres>>
mvars == <<health_status, error_count, warning_count, status_history, last_check,
           mpc, ml, checked>>
pvars == <<today, abbrev, full, back, ppc>>
nonGuardian == <<wvars, rvars, cvars, qvars, bvars, mvars, pvars>>

(***************************************************************************)
(* Guardian (beam/quota.py)                                                *)
(***************************************************************************)

\* self.resource_limits.get(resource_type, self.resource_limits["default"])
OwnLimits == [X |-> [min |-> MinLimit, hour |-> HourLimit]]
DefaultLimits == [min |-> DefaultMinLimit, hour |-> DefaultHourLimit]
resource_limitsBroken(r) == OwnLimits["X"]
resource_limits(r) == IF r \in DOMAIN OwnLimits THEN OwnLimits[r] ELSE DefaultLimits

\* [t for t in window if t > cutoff]
PurgeBroken(window, cutoff) == SelectSeq(window, LAMBDA t : t >= cutoff)
Purge(window, cutoff) == SelectSeq(window, LAMBDA t : t > cutoff)

\* hour_cutoff = current_time - 3600
HourCutoffBroken(t) == t
HourCutoff(t) == t - HourWindow

\* minute_usage >= limits["min"]
ExceededBroken(usage, limit) == usage > limit
Exceeded(usage, limit) == usage >= limit

\* 60 - (current_time % 60), 3600 - (current_time % 3600)
RetryAfter(t, window) == window - (t % window)

NoLocals == [op |-> "none", t |-> 0, r |-> "X", tmp |-> <<>>, mu |-> 0, hu |-> 0,
             pct |-> <<0, 1>>]
NoResult == [op |-> "none", outcome |-> "none", t |-> 0, r |-> "X", retry_after |-> 0]

RateLimitRecord(ltype, exceeded, prio) ==
    [kind |-> "rate_limit", priority |-> prio, limit_type |-> ltype,
     flag |-> exceeded, error |-> "None"]

\* entry of verify: current_time = time.time(); limits = ...
VBegin(self, r) ==
    /\ gpc' = [gpc EXCEPT ![self] = "v_min_filter"]
    /\ gl' = [gl EXCEPT ![self] = [NoLocals EXCEPT !.op = "verify", !.t = now, !.r = r]]

\* a caller invokes guardian.verify(op, r) directly
VerifyCall(self, r) ==
    /\ gpc[self] = "idle"
    /\ calls' = calls + 1
    /\ VBegin(self, r)
    /\ emitted' = [emitted EXCEPT ![self] = <<>>]
    /\ gres' = [gres EXCEPT ![self] = NoResult]
    /\ UNCHANGED <<now, ticks, usage_counters, accepted>>
    /\ UNCHANGED nonGuardian

\* the list comprehension over usage_counters[r]["min"] is evaluated
VMinFilter(self) ==
    /\ gpc[self] = "v_min_filter"
    /\ gl' = [gl EXCEPT ![self].tmp =
                Purge(usage_counters[gl[self].r].min, gl[self].t - MinuteWindow)]
    /\ gpc' = [gpc EXCEPT ![self] = "v_min_store"]
    /\ UNCHANGED <<now, ticks, calls, usage_counters, gres, accepted, emitted>>
    /\ UNCHANGED nonGuardian

\* ... and its result is stored back
VMinStore(self) ==
    /\ gpc[self] = "v_min_store"
    /\ usage_counters' = [usage_counters EXCEPT ![gl[self].r].min = gl[self].tmp]
    /\ gpc' = [gpc EXCEPT ![self] = "v_min_check"]
    /\ UNCHANGED <<now, ticks, calls, gl, gres, accepted, emitted>>
    /\ UNCHANGED nonGuardian

\* (a verify that leaves the minute limit to be reported after the hour limit)
VMinCheckBroken(self) ==
    /\ gpc[self] = "v_min_check"
    /\ gl' = [gl EXCEPT ![self].mu = Len(usage_counters[gl[self].r].min)]
    /\ gpc' = [gpc EXCEPT ![self] = "v_hour_filter"]
    /\ UNCHANGED <<now, ticks, calls, usage_counters, gres, accepted, emitted>>
    /\ UNCHANGED nonGuardian

\* minute_usage = len(...); if minute_exceeded: record(..., priority="high"); raise
VMinCheck(self) ==
    /\ gpc[self] = "v_min_check"
    /\ LET r == gl[self].r
           mu == Len(usage_counters[r].min)
       IN  /\ gl' = [gl EXCEPT ![self].mu = mu]
           /\ IF Exceeded(mu, resource_limits(r).min)
              THEN /\ emitted' = [emitted EXCEPT ![self] =
                          Append(@, RateLimitRecord("min", TRUE, "high"))]
                   /\ gres' = [gres EXCEPT ![self] =
                          [op |-> "verify", outcome |-> "min", t |-> gl[self].t, r |-> r,
                           retry_after |-> RetryAfter(gl[self].t, MinuteWindow)]]
                   /\ gpc' = [gpc EXCEPT ![self] = "returned"]
              ELSE /\ gpc' = [gpc EXCEPT ![self] = "v_hour_filter"]
                   /\ UNCHANGED <<emitted, gres>>
    /\ UNCHANGED <<now, ticks, calls, usage_counters, accepted>>
    /\ UNCHANGED nonGuardian

VHourFilter(self) ==
    /\ gpc[self] = "v_hour_filter"
    /\ gl' = [gl EXCEPT ![self].tmp =
                Purge(usage_counters[gl[self].r].hour, HourCutoff(gl[self].t))]
    /\ gpc' = [gpc EXCEPT ![self] = "v_hour_store"]
    /\ UNCHANGED <<now, ticks, calls, usage_counters, gres, accepted, emitted>>
    /\ UNCHANGED nonGuardian

VHourStore(self) ==
    /\ gpc[self] = "v_hour_store"
    /\ usage_counters' = [usage_counters EXCEPT ![gl[self].r].hour = gl[self].tmp]
    /\ gpc' = [gpc EXCEPT ![self] = "v_hour_check"]
    /\ UNCHANGED <<now, ticks, calls, gl, gres, accepted, emitted>>
    /\ UNCHANGED nonGuardian

\* hour_usage = len(...); record(...); if hour_exceeded: raise
VHourCheck(self) ==
    /\ gpc[self] = "v_hour_check"
    /\ LET r == gl[self].r
           hu == Len(usage_counters[r].hour)
           ex == Exceeded(hu, resource_limits(r).hour)
       IN  /\ gl' = [gl EXCEPT ![self].hu = hu]
           /\ emitted' = [emitted EXCEPT ![self] =
                  Append(@, RateLimitRecord(IF ex THEN "hour" ELSE "min", ex, "None"))]
           /\ IF ex
              THEN /\ gres' = [gres EXCEPT ![self] =
                          [op |-> "verify", outcome |-> "hour", t |-> gl[self].t, r |-> r,
                           retry_after |-> RetryAfter(gl[self].t, HourWindow)]]
                   /\ gpc' = [gpc EXCEPT ![self] = "returned"]
              ELSE /\ gpc' = [gpc EXCEPT ![self] = "v_append_min"]
                   /\ UNCHANGED gres
    /\ UNCHANGED <<now, ticks, calls, usage_counters, accepted>>
    /\ UNCHANGED nonGuardian

\* window.append(current_time)
AppendTimeBroken(window, t) == Append(Append(window, t), t)
AppendTime(window, t) == Append(window, t)

\* self.usage_counters[resource_type]["min"].append(current_time)
VAppendMin(self) ==
    /\ gpc[self] = "v_append_min"
    /\ usage_counters' = [usage_counters EXCEPT ![gl[self].r].min = AppendTime(@, gl[self].t)]
    /\ gpc' = [gpc EXCEPT ![self] = "v_append_hour"]
    /\ UNCHANGED <<now, ticks, calls, gl, gres, accepted, emitted>>
    /\ UNCHANGED nonGuardian

\* self.usage_counters[resource_type]["hour"].append(current_time); return True
VAppendHour(self) ==
    /\ gpc[self] = "v_append_hour"
    /\ usage_counters' = [usage_counters EXCEPT ![gl[self].r].hour = AppendTime(@, gl[self].t)]
    /\ accepted' = [accepted EXCEPT ![gl[self].r] = Append(@, gl[self].t)]
    /\ gres' = [gres EXCEPT ![self] =
          [op |-> "verify", outcome |-> "ok", t |-> gl[self].t, r |-> gl[self].r,
           retry_after |-> 0]]
    /\ gpc' = [gpc EXCEPT ![self] = "returned"]
    /\ UNCHANGED <<now, ticks, calls, gl, emitted>>
    /\ UNCHANGED nonGuardian

\* the direct caller takes the result (True or the RateLimitExceeded raised)
GReturn(self) ==
    /\ gpc[self] = "returned"
    /\ gpc' = [gpc EXCEPT ![self] = "idle"]
    /\ gl' = [gl EXCEPT ![self] = NoLocals]
    /\ UNCHANGED <<now, ticks, calls, usage_counters, gres, accepted, emitted>>
    /\ UNCHANGED nonGuardian

\* a caller invokes guardian.usage(r): current_time = time.time(); limits = ...
UsageCall(self, r) ==
    /\ gpc[self] = "idle"
    /\ calls' = calls + 1
    /\ gpc' = [gpc EXCEPT ![self] = "u_min_filter"]
    /\ gl' = [gl EXCEPT ![self] = [NoLocals EXCEPT !.op = "usage", !.t = now, !.r = r]]
    /\ emitted' = [emitted EXCEPT ![self] = <<>>]
    /\ gres' = [gres EXCEPT ![self] = NoResult]
    /\ UNCHANGED <<now, ticks, usage_counters, accepted>>
    /\ UNCHANGED nonGuardian

\* usage: the list comprehension over usage_counters[r]["min"] is evaluated
UMinFilter(self) ==
    /\ gpc[self] = "u_min_filter"
    /\ gl' = [gl EXCEPT ![self].tmp =
                Purge(usage_counters[gl[self].r].min, gl[self].t - MinuteWindow)]
    /\ gpc' = [gpc EXCEPT ![self] = "u_min_store"]
    /\ UNCHANGED <<now, ticks, calls, usage_counters, gres, accepted, emitted>>
    /\ UNCHANGED nonGuardian

\* ... and its result is stored back
UMinStore(self) ==
    /\ gpc[self] = "u_min_store"
    /\ usage_counters' = [usage_counters EXCEPT ![gl[self].r].min = gl[self].tmp]
    /\ gpc' = [gpc EXCEPT ![self] = "u_hour_filter"]
    /\ UNCHANGED <<now, ticks, calls, gl, gres, accepted, emitted>>
    /\ UNCHANGED nonGuardian

UHourFilter(self) ==
    /\ gpc[self] = "u_hour_filter"
    /\ gl' = [gl EXCEPT ![self].tmp =
                Purge(usage_counters[gl[self].r].hour, HourCutoff(gl[self].t))]
    /\ gpc' = [gpc EXCEPT ![self] = "u_hour_store"]
    /\ UNCHANGED <<now, ticks, calls, usage_counters, gres, accepted, emitted>>
    /\ UNCHANGED nonGuardian

UHourStore(self) ==
    /\ gpc[self] = "u_hour_store"
    /\ usage_counters' = [usage_counters EXCEPT ![gl[self].r].hour = gl[self].tmp]
    /\ gpc' = [gpc EXCEPT ![self] = "u_return"]
    /\ UNCHANGED <<now, ticks, calls, gl, gres, accepted, emitted>>
    /\ UNCHANGED nonGuardian

\* (usage / limit) * 100 if limit > 0 else 0, kept as the fraction
\* <<numerator, denominator>>: the quotient is not rounded to an integer
Percentage(usage, limit) == IF limit > 0 THEN <<usage * 100, limit>> ELSE <<0, 1>>

\* max(minute_percentage, hour_percentage): the first argument unless the
\* second is larger
MaxPctBroken(a, b) == IF b[1] * a[2] < a[1] * b[2] THEN b ELSE a
MaxPct(a, b) == IF b[1] * a[2] > a[1] * b[2] THEN b ELSE a

\* minute_usage = len(...); hour_usage = len(...); return max(...)
UReturn(self) ==
    /\ gpc[self] = "u_return"
    /\ LET r == gl[self].r
           mu == Len(usage_counters[r].min)
           hu == Len(usage_counters[r].hour)
       IN  gl' = [gl EXCEPT ![self].mu = mu, ![self].hu = hu,
                            ![self].pct = MaxPct(Percentage(mu, resource_limits(r).min),
                                                 Percentage(hu, resource_limits(r).hour))]
    /\ gres' = [gres EXCEPT ![self] =
          [op |-> "usage", outcome |-> "ok", t |-> gl[self].t, r |-> gl[self].r,
           retry_after |-> 0]]
    /\ gpc' = [gpc EXCEPT ![self] = "returned"]
    /\ UNCHANGED <<now, ticks, calls, usage_counters, accepted, emitted>>
    /\ UNCHANGED nonGuardian

\* the steps of a running usage call
UsageStep(self) ==
    \/ UMinFilter(self)
    \/ UMinStore(self)
    \/ UHourFilter(self)
    \/ UHourStore(self)
    \/ UReturn(self)

\* time.time() advances
Tick(d) ==
    /\ now' = now + d
    /\ ticks' = ticks + 1
    /\ UNCHANGED <<calls, usage_counters, gpc, gl, gres, accepted, emitted>>
    /\ UNCHANGED nonGuardian

(***************************************************************************)
(* optimize wrapper (beam/quota.py, _create_wrapper.wrapper)               *)
(***************************************************************************)

\* the resource_type argument of the decoration
WrappedResource == "X"

\* what the wrapped function does when it is run: it returns, raises an
\* exception derived from Exception, or raises one that is not (SystemExit,
\* KeyboardInterrupt: e.g. a nested wrapped function whose quota check exits)
FuncOutcomes == {"return", "raise_Exception", "raise_BaseException"}

NoWLocals == [current_time |-> 0, content_triggered |-> FALSE, retries |-> 0,
              loop_detected |-> FALSE, attempts |-> 0, slept |-> <<>>]
NoWResult == [status |-> "none", value |-> "none", attempts |-> 0, ran |-> "no",
              slept |-> <<>>]

\* while call_history and current_time - call_history[0] > time_window: pop(0)
RECURSIVE PruneFront(_, _)
PruneFrontBroken(h, ct) == h
PruneFront(h, ct) ==
    IF h # <<>> /\ ct - Head(h) > TimeWindow THEN PruneFront(Tail(h), ct) ELSE h

\* CleanErrorContext.__exit__: the exception that leaves the with block
CleanErrorExitBroken(exc) == exc
CleanErrorExit(exc) == IF exc = "RateLimitExceeded" THEN "SystemExit" ELSE exc

RECURSIVE Pow(_, _)
Pow(b, n) == IF n = 0 THEN 1 ELSE b * Pow(b, n - 1)

Min2(a, b) == IF a <= b THEN a ELSE b

\* wait_time = backoff_factor ** retries; min(wait_time, e.retry_after) if set
WaitTime(retries, retry_after) ==
    IF retry_after # 0 THEN Min2(Pow(BackoffFactor, retries), retry_after)
    ELSE Pow(BackoffFactor, retries)

\* the record of the rate limit error handed to collector.record
ErrorRecord == [kind |-> "error", priority |-> "high", limit_type |-> "None",
                flag |-> FALSE, error |-> "rate_limit_text"]

\* success / error as left by try: ... except Exception as e: ... finally:
FuncMetricBroken(outcome) ==
    [kind |-> "function", priority |-> "None", limit_type |-> "None",
     flag |-> TRUE,
     error |-> IF outcome = "raise_Exception" THEN "exception_text" ELSE "None"]
FuncMetric(outcome) ==
    [kind |-> "function", priority |-> "None", limit_type |-> "None",
     flag |-> (outcome = "return"),
     error |-> IF outcome = "raise_Exception" THEN "exception_text" ELSE "None"]

AdRecord == [kind |-> "ad_opportunity", priority |-> "None", limit_type |-> "None",
             flag |-> FALSE, error |-> "None"]

\* wrapper entry: current_time = time.time(); session reset; retries = 0
WCall(self) ==
    /\ wpc[self] = "idle"
    /\ gpc[self] = "idle"
    /\ calls' = calls + 1
    /\ wl' = [wl EXCEPT ![self] = [NoWLocals EXCEPT !.current_time = now]]
    /\ invoked' = Append(invoked, now)
    /\ IF now - session_start_time > SessionTimeout
       THEN session_displayed' = FALSE /\ session_start_time' = now
       ELSE UNCHANGED <<session_displayed, session_start_time>>
    /\ wres' = [wres EXCEPT ![self] = NoWResult]
    /\ emitted' = [emitted EXCEPT ![self] = <<>>]
    /\ wpc' = [wpc EXCEPT ![self] = "w_loop"]
    /\ UNCHANGED <<now, ticks, usage_counters, gpc, gl, gres, accepted, max_retries,
                   call_history, last_ad_time, consecutive_loop_detections, shown,
                   passes>>
    /\ UNCHANGED <<rvars, cvars, qvars, bvars, mvars, pvars>>

\* current_time - last_ad_time >= ad_cooldown
CooldownElapsedBroken(ct, last) == TRUE
CooldownElapsed(ct, last) == ct - last >= AdCooldown

\* should_show_content = (consecutive_loop_detections >=
\* content_trigger_threshold) and (current_time - last_ad_time >= ad_cooldown)
\* and not session_displayed
ShouldShowContentBroken(cons, ct, last, displayed) ==
    /\ cons >= ContentTriggerThreshold
    /\ CooldownElapsed(ct, last)
ShouldShowContent(cons, ct, last, displayed) ==
    /\ cons >= ContentTriggerThreshold
    /\ CooldownElapsed(ct, last)
    /\ ~displayed

\* if loop_detected: consecutive_loop_detections += 1
\* else: consecutive_loop_detections = 0
CountLoopBroken(cons, detected) == IF detected THEN cons + 1 ELSE cons
CountLoop(cons, detected) == IF detected THEN cons + 1 ELSE 0

\* loop detection and content opportunity (top of the while True body)
WLoop(self) ==
    /\ wpc[self] = "w_loop"
    /\ LET ct == wl[self].current_time
           h == PruneFront(Append(call_history, ct), ct)
           detected == Len(h) >= LoopThreshold
           cons == CountLoop(consecutive_loop_detections, detected)
           show == ShouldShowContent(cons, ct, last_ad_time, session_displayed)
       IN  /\ call_history' = h
           /\ passes' = Append(passes, [flagged |-> detected, triggered |-> show])
           /\ wl' = [wl EXCEPT ![self].loop_detected = detected,
                               ![self].content_triggered = (@ \/ show)]
           /\ IF show
              THEN /\ last_ad_time' = ct
                   /\ consecutive_loop_detections' = 0
                   /\ session_displayed' = TRUE
                   /\ shown' = Append(shown, ct)
              ELSE /\ consecutive_loop_detections' = cons
                   /\ UNCHANGED <<last_ad_time, session_displayed, shown>>
    /\ wpc' = [wpc EXCEPT ![self] = "w_verify"]
    /\ UNCHANGED <<gvars, max_retries, session_start_time, wres, invoked>>
    /\ UNCHANGED <<rvars, cvars, qvars, bvars, mvars, pvars>>

\* with CleanErrorContext(): guardian.verify(func.__name__, resource_type)
WVerify(self) ==
    /\ wpc[self] = "w_verify"
    /\ VBegin(self, WrappedResource)
    /\ wl' = [wl EXCEPT ![self].attempts = @ + 1]
    /\ wpc' = [wpc EXCEPT ![self] = "w_verifying"]
    /\ UNCHANGED <<now, ticks, calls, usage_counters, gres, accepted, emitted,
                   max_retries, call_history, last_ad_time, consecutive_loop_detections,
                   session_displayed, session_start_time, wres, shown, invoked,
                   passes>>
    /\ UNCHANGED <<rvars, cvars, qvars, bvars, mvars, pvars>>

\* what guardian.verify did to the with block: it returned ("none") or raised
VerifyRaisedBroken(outcome) == "none"
VerifyRaised(outcome) == IF outcome = "ok" THEN "none" ELSE "RateLimitExceeded"

\* verify has returned or raised: __exit__ of the context manager, then the
\* except RateLimitExceeded clause of the wrapper
WAfterVerify(self) ==
    /\ wpc[self] = "w_verifying"
    /\ gpc[self] = "returned"
    /\ gpc' = [gpc EXCEPT ![self] = "idle"]
    /\ gl' = [gl EXCEPT ![self] = NoLocals]
    /\ LET exc == CleanErrorExit(VerifyRaised(gres[self].outcome))
           w == wl[self]
       IN  CASE exc = "none" ->
                  /\ wpc' = [wpc EXCEPT ![self] = "w_exec"]
                  /\ UNCHANGED <<emitted, wl, wres, session_displayed, last_ad_time, shown>>
             [] exc = "RateLimitExceeded" ->
                  \* except RateLimitExceeded as e:
                  /\ emitted' = [emitted EXCEPT ![self] = Append(@, ErrorRecord)]
                  /\ IF ~session_displayed
                     THEN /\ session_displayed' = TRUE
                          /\ last_ad_time' = w.current_time
                          /\ shown' = Append(shown, w.current_time)
                     ELSE UNCHANGED <<session_displayed, last_ad_time, shown>>
                  /\ IF w.retries < max_retries
                     THEN /\ wl' = [wl EXCEPT ![self].retries = @ + 1,
                                     ![self].slept = Append(@,
                                         WaitTime(w.retries, gres[self].retry_after))]
                          /\ wpc' = [wpc EXCEPT ![self] = "w_loop"]
                          /\ UNCHANGED wres
                     ELSE /\ wres' = [wres EXCEPT ![self] =
                                 [status |-> "raised", value |-> "RateLimitExceeded",
                                  attempts |-> w.attempts, ran |-> "no",
                                  slept |-> w.slept]]
                          /\ wpc' = [wpc EXCEPT ![self] = "idle"]
                          /\ UNCHANGED wl
             [] OTHER ->
                  \* not a RateLimitExceeded: it leaves the wrapper
                  /\ wres' = [wres EXCEPT ![self] =
                         [status |-> "raised", value |-> exc, attempts |-> w.attempts,
                          ran |-> "no", slept |-> w.slept]]
                  /\ wpc' = [wpc EXCEPT ![self] = "idle"]
                  /\ UNCHANGED <<emitted, wl, session_displayed, last_ad_time, shown>>
    /\ UNCHANGED <<now, ticks, calls, usage_counters, gres, accepted, max_retries,
                   call_history, consecutive_loop_detections, session_start_time,
                   invoked, passes>>
    /\ UNCHANGED <<rvars, cvars, qvars, bvars, mvars, pvars>>

\* result = func(*args, **kwargs) with its except / finally, and the return
WExec(self, outcome) ==
    /\ wpc[self] = "w_exec"
    /\ emitted' = [emitted EXCEPT ![self] =
          IF wl[self].content_triggered
          THEN Append(Append(@, FuncMetric(outcome)), AdRecord)
          ELSE Append(@, FuncMetric(outcome))]
    /\ wres' = [wres EXCEPT ![self] =
          [status |-> IF outcome = "return" THEN "returned" ELSE "raised",
           value |-> outcome, attempts |-> wl[self].attempts, ran |-> outcome,
           slept |-> wl[self].slept]]
    /\ wpc' = [wpc EXCEPT ![self] = "idle"]
    /\ UNCHANGED <<now, ticks, calls, usage_counters, gpc, gl, gres, accepted, wl,
                   max_retries, call_history, last_ad_time,
                   consecutive_loop_detections, session_displayed,
                   session_start_time, shown, invoked, passes>>
    /\ UNCHANGED <<rvars, cvars, qvars, bvars, mvars, pvars>>

(***************************************************************************)
(* Conduit (flow/relay.py)                                                 *)
(***************************************************************************)

EmptyBuffer == [function_calls |-> <<>>, api_requests |-> <<>>, rate_limits |-> <<>>]
NoPayload == [sync_count |-> 0, reason |-> "none", data |-> EmptyBuffer]
NoRLocals == [reason |-> "none", data_to_send |-> EmptyBuffer, payload |-> NoPayload,
              response |-> "none", to_retry |-> <<>>, i |-> 0, success_count |-> 0,
              attempts |-> <<>>]
NoRResult == [op |-> "none", val |-> 0]

\* rres once `self` has returned val from op: the value reaches the caller of
\* the method; a thread the Conduit started (threading.Thread(target=
\* self.dispatch), periodic_sync) discards what its target returns
Returns(self, op, val) ==
    IF self \in Callers THEN [rres EXCEPT ![self] = [op |-> op, val |-> val]] ELSE rres

\* `with self.lock:` can be entered
CanAcquireBroken(l) == TRUE
CanAcquire(l) == l = "none"

\* sum(len(buffer) for buffer in self.buffer.values())
TotalRecords(b) == Len(b.function_calls) + Len(b.api_requests) + Len(b.rate_limits)

\* _check_triggers(record_type): the trigger_reason, "none" when should_trigger
\* stays False.  flag is is_exceeded of a rate-limit record and success of a
\* function-call record; rand is the outcome of random.random() < 0.05 *
\* time_factor, which cannot be true while time_factor is 0.
TriggerReasonBroken(b, cat, rand) ==
    IF TotalRecords(b) >= buffer_size THEN "buffer_full"
    ELSE IF cat = "rate_limits"
            /\ \E i \in DOMAIN b.rate_limits : b.rate_limits[i].flag
         THEN "rate_limit_exceeded"
    ELSE IF rand /\ now > last_sync_time THEN "random_time_weighted"
    ELSE "none"
TriggerReason(b, cat, rand) ==
    IF TotalRecords(b) >= buffer_size THEN "buffer_full"
    ELSE IF cat = "rate_limits"
            /\ \E i \in DOMAIN b.rate_limits : b.rate_limits[i].flag
         THEN "rate_limit_exceeded"
    ELSE IF cat = "function_calls"
            /\ \E i \in DOMAIN b.function_calls : ~b.function_calls[i].flag
         THEN "function_error"
    ELSE IF rand /\ now > last_sync_time THEN "random_time_weighted"
    ELSE "none"

\* add_function_call / add_api_request / add_rate_limit: under the lock, append
\* the record and run _check_triggers, which may start a dispatch thread
Enqueue(self, cat, rec, rand) ==
    /\ CanAcquire(rlock)
    /\ LET b == [buffer EXCEPT ![cat] = Append(@, rec)]
           reason == TriggerReason(b, cat, rand)
       IN  /\ buffer' = b
           /\ IF reason = "none"
              THEN UNCHANGED <<rpc, rl>>
              ELSE \E j \in DOMAIN TriggerThreads :
                      LET d == TriggerThreads[j] IN
                      /\ rpc[d] = "idle"
                      /\ \A h \in 1..(j - 1) : rpc[TriggerThreads[h]] # "idle"
                      /\ rpc' = [rpc EXCEPT ![d] = "d_call"]
                      /\ rl' = [rl EXCEPT ![d] = [NoRLocals EXCEPT !.reason = reason]]
    /\ UNCHANGED <<webhook_url, buffer_size, rlock, last_sync_time, sync_count, failed_queue, rres,
                   payloads, retry_calls>>

\* the records a caller adds: a successful and a failed function call, an API
\* request, and a rate-limit check that found the limit exceeded
RecordInputs == {<<"function_calls", TRUE>>, <<"function_calls", FALSE>>,
                 <<"api_requests", TRUE>>, <<"rate_limits", TRUE>>}

\* a caller adds a record to the Conduit
AddRecord(self, cat, flag, rand) ==
    /\ rpc[self] = "idle"
    /\ Enqueue(self, cat, [id |-> next_id, flag |-> flag], rand)
    /\ next_id' = next_id + 1
    /\ UNCHANGED <<gvars, wvars, cvars, qvars, bvars, mvars, pvars>>

\* dispatch(reason) is called: sync_now(), or the periodic sync thread
DispatchCall(self, reason) ==
    /\ rpc[self] = "idle"
    /\ rpc' = [rpc EXCEPT ![self] = "d_call"]
    /\ rl' = [rl EXCEPT ![self] = [NoRLocals EXCEPT !.reason = reason]]
    /\ rres' = [rres EXCEPT ![self] = NoRResult]
    /\ UNCHANGED <<webhook_url, buffer_size, buffer, rlock, last_sync_time, sync_count, failed_queue,
                   payloads, next_id, retry_calls>>
    /\ UNCHANGED <<gvars, wvars, cvars, qvars, bvars, mvars, pvars>>

\* not self.webhook_url
NoEndpointBroken(url) == FALSE
NoEndpoint(url) == url = "None"

\* configure(webhook_url): with self.lock: self.webhook_url = webhook_url;
\* _save_config(); return True
Configure(self, url) ==
    /\ rpc[self] = "idle"
    /\ CanAcquire(rlock)
    /\ webhook_url' = url
    /\ rres' = Returns(self, "configure", 1)
    /\ UNCHANGED <<buffer_size, buffer, rlock, last_sync_time, sync_count, failed_queue,
                   rpc, rl, payloads, next_id, retry_calls>>
    /\ UNCHANGED <<gvars, wvars, cvars, qvars, bvars, mvars, pvars>>

\* if not self.webhook_url: return False
DCheckUrl(self) ==
    /\ rpc[self] = "d_call"
    /\ IF NoEndpoint(webhook_url)
       THEN /\ rpc' = [rpc EXCEPT ![self] = "idle"]
            /\ rres' = Returns(self, "dispatch", 0)
       ELSE /\ rpc' = [rpc EXCEPT ![self] = "d_lock"]
            /\ UNCHANGED rres
    /\ UNCHANGED <<webhook_url, buffer_size, buffer, rlock, last_sync_time, sync_count, failed_queue,
                   rl, payloads, next_id, retry_calls>>
    /\ UNCHANGED <<gvars, wvars, cvars, qvars, bvars, mvars, pvars>>

\* all(len(records) == 0 for records in self.buffer.values())
AllEmptyBroken(b) == Len(b.function_calls) = 0
AllEmpty(b) ==
    Len(b.function_calls) = 0 /\ Len(b.api_requests) = 0 /\ Len(b.rate_limits) = 0

\* with self.lock: if all buffers are empty: return False
DLock(self) ==
    /\ rpc[self] = "d_lock"
    /\ CanAcquire(rlock)
    /\ IF AllEmpty(buffer)
       THEN /\ rpc' = [rpc EXCEPT ![self] = "idle"]
            /\ rres' = Returns(self, "dispatch", 0)
            /\ UNCHANGED rlock
       ELSE /\ rlock' = self
            /\ rpc' = [rpc EXCEPT ![self] = "d_copy"]
            /\ UNCHANGED rres
    /\ UNCHANGED <<webhook_url, buffer_size, buffer, last_sync_time, sync_count, failed_queue,
                   rl, payloads, next_id, retry_calls>>
    /\ UNCHANGED <<gvars, wvars, cvars, qvars, bvars, mvars, pvars>>

\* data_to_send = copies of the three buffers
DCopy(self) ==
    /\ rpc[self] = "d_copy"
    /\ rl' = [rl EXCEPT ![self].data_to_send = buffer]
    /\ rpc' = [rpc EXCEPT ![self] = "d_clear"]
    /\ UNCHANGED <<webhook_url, buffer_size, buffer, rlock, last_sync_time, sync_count, failed_queue,
                   rres, payloads, next_id, retry_calls>>
    /\ UNCHANGED <<gvars, wvars, cvars, qvars, bvars, mvars, pvars>>

\* the end of dispatch's first `with self.lock:` block, which comes before the
\* payload is built and sent: the lock is given up there
ReleaseBroken(l) == l
Release(l) == "none"

\* self.buffer = {...empty...}; last_sync_time = time.time(); sync_count += 1;
\* _save_config(); the lock is released
DClear(self) ==
    /\ rpc[self] = "d_clear"
    /\ buffer' = EmptyBuffer
    /\ last_sync_time' = now
    /\ sync_count' = sync_count + 1
    /\ rlock' = Release(rlock)
    /\ rpc' = [rpc EXCEPT ![self] = "d_build"]
    /\ UNCHANGED <<webhook_url, buffer_size, failed_queue, rl, rres, payloads, next_id, retry_calls>>
    /\ UNCHANGED <<gvars, wvars, cvars, qvars, bvars, mvars, pvars>>

\* payload = {"analytics_data": data_to_send, "metadata": {..., "sync_count":
\* self.sync_count, "trigger_reason": reason, ...}}
DBuild(self) ==
    /\ rpc[self] = "d_build"
    /\ LET pl == [sync_count |-> sync_count, reason |-> rl[self].reason,
                  data |-> rl[self].data_to_send]
       IN  /\ rl' = [rl EXCEPT ![self].payload = pl]
           /\ payloads' = Append(payloads, pl)
    /\ rpc' = [rpc EXCEPT ![self] = "d_send"]
    /\ UNCHANGED <<webhook_url, buffer_size, buffer, rlock, last_sync_time, sync_count, failed_queue,
                   rres, next_id, retry_calls>>
    /\ UNCHANGED <<gvars, wvars, cvars, qvars, bvars, mvars, pvars>>

\* what requests.post(webhook_url, json=payload, timeout=5) can do: answer
\* with status 200, answer with another status, fail in the network, time out
SendOutcomes == {"200", "non200", "network_error", "timeout"}

\* _send_data(payload): return response.status_code == 200; except: return False
SendDataBroken(outcome) == outcome \in {"200", "non200"}
SendData(outcome) == outcome = "200"

\* success = self._send_data(payload); return success when it is true.  The
\* outcome of the transmission stays in the locals as `response` (for a
\* caller, also after the return: it is what the returned value reports).
DSend(self, outcome) ==
    /\ rpc[self] = "d_send"
    /\ IF SendData(outcome)
       THEN /\ rpc' = [rpc EXCEPT ![self] = "idle"]
            /\ rres' = Returns(self, "dispatch", 1)
            /\ rl' = [rl EXCEPT ![self] =
                         IF self \in Callers THEN [NoRLocals EXCEPT !.response = outcome]
                         ELSE NoRLocals]
       ELSE /\ rpc' = [rpc EXCEPT ![self] = "d_failed"]
            /\ rl' = [rl EXCEPT ![self].response = outcome]
            /\ UNCHANGED rres
    /\ UNCHANGED <<webhook_url, buffer_size, buffer, rlock, last_sync_time, sync_count, failed_queue,
                   payloads, next_id, retry_calls>>
    /\ UNCHANGED <<gvars, wvars, cvars, qvars, bvars, mvars, pvars>>

\* self.failed_queue[-10:] when the queue is longer than 10
KeepLastBroken(q) ==
    IF Len(q) > FailedQueueMax THEN SubSeq(q, 1, FailedQueueMax) ELSE q
KeepLast(q) ==
    IF Len(q) > FailedQueueMax THEN SubSeq(q, Len(q) - FailedQueueMax + 1, Len(q)) ELSE q

\* if not success: with self.lock: failed_queue.append(payload); truncate
DFailed(self) ==
    /\ rpc[self] = "d_failed"
    /\ CanAcquire(rlock)
    /\ failed_queue' = KeepLast(Append(failed_queue, rl[self].payload))
    /\ rpc' = [rpc EXCEPT ![self] = "idle"]
    /\ rres' = Returns(self, "dispatch", 0)
    /\ rl' = [rl EXCEPT ![self] =
                 IF self \in Callers THEN [NoRLocals EXCEPT !.response = rl[self].response]
                 ELSE NoRLocals]
    /\ UNCHANGED <<webhook_url, buffer_size, buffer, rlock, last_sync_time, sync_count, payloads,
                   next_id, retry_calls>>
    /\ UNCHANGED <<gvars, wvars, cvars, qvars, bvars, mvars, pvars>>

\* retry_failed(): if not self.failed_queue: return 0
RetryCall(self) ==
    /\ rpc[self] = "idle"
    /\ retry_calls' = retry_calls + 1
    /\ IF failed_queue = <<>>
       THEN /\ rres' = Returns(self, "retry_failed", 0)
            /\ UNCHANGED <<rpc, rl>>
       ELSE /\ rpc' = [rpc EXCEPT ![self] = "r_take"]
            /\ rl' = [rl EXCEPT ![self] = NoRLocals]
            /\ rres' = [rres EXCEPT ![self] = NoRResult]
    /\ UNCHANGED <<webhook_url, buffer_size, buffer, rlock, last_sync_time, sync_count, failed_queue,
                   payloads, next_id>>
    /\ UNCHANGED <<gvars, wvars, cvars, qvars, bvars, mvars, pvars>>

\* with self.lock: to_retry = self.failed_queue.copy(); self.failed_queue = []
RetryTake(self) ==
    /\ rpc[self] = "r_take"
    /\ CanAcquire(rlock)
    /\ rl' = [rl EXCEPT ![self].to_retry = failed_queue, ![self].i = 1]
    /\ failed_queue' = <<>>
    /\ rpc' = [rpc EXCEPT ![self] = "r_loop"]
    /\ UNCHANGED <<webhook_url, buffer_size, buffer, rlock, last_sync_time, sync_count, rres,
                   payloads, next_id, retry_calls>>
    /\ UNCHANGED <<gvars, wvars, cvars, qvars, bvars, mvars, pvars>>

\* for payload in to_retry: if self._send_data(payload): success_count += 1
\* `attempts` notes each payload handed to _send_data and what came of it
RetrySend(self, outcome) ==
    /\ rpc[self] = "r_loop"
    /\ rl[self].i <= Len(rl[self].to_retry)
    /\ LET tried == Append(rl[self].attempts,
                           [payload |-> rl[self].to_retry[rl[self].i], outcome |-> outcome])
       IN  IF SendData(outcome)
           THEN /\ rl' = [rl EXCEPT ![self].success_count = @ + 1, ![self].i = @ + 1,
                                    ![self].attempts = tried]
                /\ UNCHANGED rpc
           ELSE /\ rpc' = [rpc EXCEPT ![self] = "r_requeue"]
                /\ rl' = [rl EXCEPT ![self].attempts = tried]
    /\ UNCHANGED <<webhook_url, buffer_size, buffer, rlock, last_sync_time, sync_count, failed_queue,
                   rres, payloads, next_id, retry_calls>>
    /\ UNCHANGED <<gvars, wvars, cvars, qvars, bvars, mvars, pvars>>

\* self.failed_queue.append(payload)
RequeueBroken(q, payload) == <<payload>> \o q
Requeue(q, payload) == Append(q, payload)

\* else: with self.lock: self.failed_queue.append(payload)
RetryRequeue(self) ==
    /\ rpc[self] = "r_requeue"
    /\ CanAcquire(rlock)
    /\ failed_queue' = Requeue(failed_queue, rl[self].to_retry[rl[self].i])
    /\ rl' = [rl EXCEPT ![self].i = @ + 1]
    /\ rpc' = [rpc EXCEPT ![self] = "r_loop"]
    /\ UNCHANGED <<webhook_url, buffer_size, buffer, rlock, last_sync_time, sync_count, rres,
                   payloads, next_id, retry_calls>>
    /\ UNCHANGED <<gvars, wvars, cvars, qvars, bvars, mvars, pvars>>

\* return success_count
RetryReturn(self) ==
    /\ rpc[self] = "r_loop"
    /\ rl[self].i > Len(rl[self].to_retry)
    /\ rres' = Returns(self, "retry_failed", rl[self].success_count)
    /\ rl' = [rl EXCEPT ![self] = NoRLocals]
    /\ rpc' = [rpc EXCEPT ![self] = "idle"]
    /\ UNCHANGED <<webhook_url, buffer_size, buffer, rlock, last_sync_time, sync_count, failed_queue,
                   payloads, next_id, retry_calls>>
    /\ UNCHANGED <<gvars, wvars, cvars, qvars, bvars, mvars, pvars>>

\* the steps of a running dispatch, its transmission ending in one of outcomes
DispatchStep(self, outcomes) ==
    \/ DCheckUrl(self)
    \/ DLock(self)
    \/ DCopy(self)
    \/ DClear(self)
    \/ DBuild(self)
    \/ \E o \in outcomes : DSend(self, o)
    \/ DFailed(self)

\* periodic_sync: the wake-up that calls dispatch("periodic"), and the steps
\* of that dispatch
PeriodicSync ==
    \/ DispatchCall(PeriodicThread, "periodic")
    \/ DispatchStep(PeriodicThread, SendOutcomes)

(***************************************************************************)
(* Conduit.queue (flow/relay.py)                                           *)
(*                                                                         *)
(* A package is described by its "type" entry ("missing" when it has none, *)
(* "nondict" when the package is no dictionary, "empty" when it is falsy), *)
(* by the success / is_exceeded flag of its data, and, for a package of    *)
(* type "metrics", by the keys of its data in dictionary order (each key   *)
(* holding a list of one item).                                            *)
(***************************************************************************)

NoPackage == [type |-> "empty", flag |-> TRUE, keys |-> <<>>]
NoQLocals == [package |-> NoPackage, priority |-> "None", route |-> <<>>, i |-> 0,
              ret |-> "none"]

QueuePackages ==
    {[type |-> t, flag |-> TRUE, keys |-> <<>>] :
        t \in {"function", "api_request", "rate_limit", "system_info", "other",
                "missing", "nondict", "empty"}}
    \cup {[type |-> "metrics", flag |-> TRUE, keys |-> k] :
            k \in {<<>>, <<"function", "request">>, <<"rate_limit", "error">>}}

\* the buffer the items under a key of a "metrics" package are added to
MetricsCategory(key) ==
    CASE key = "function" -> "function_calls"
      [] key = "rate_limit" -> "rate_limits"
      [] key = "request" -> "api_requests"
      [] OTHER -> "none"

\* one add_* call of queue: the buffer, what is added (the package's data,
\* the package itself, a summary of it, a message made of it, an item of a
\* metrics list) and the flag the triggers will find in it (a summary and a
\* message have no "success" entry)
Add(cat, src, flag, key) == [cat |-> cat, src |-> src, flag |-> flag, key |-> key]

\* the add_* calls queue makes for package p, in order
RouteBroken(p) ==
    <<Add("function_calls", "data", p.flag, "none")>>
Route(p) ==
    CASE p.type = "nondict" -> <<Add("function_calls", "message", FALSE, "none")>>
      [] p.type = "missing" -> <<Add("function_calls", "package", p.flag, "none")>>
      [] p.type = "function" -> <<Add("function_calls", "data", p.flag, "none")>>
      [] p.type = "api_request" -> <<Add("api_requests", "data", p.flag, "none")>>
      [] p.type = "rate_limit" -> <<Add("rate_limits", "data", p.flag, "none")>>
      [] p.type = "system_info" -> <<Add("function_calls", "summary", FALSE, "none")>>
      [] p.type = "metrics" ->
            SelectSeq([i \in DOMAIN p.keys |->
                          Add(MetricsCategory(p.keys[i]), "item", p.flag, p.keys[i])],
                      LAMBDA a : a.cat # "none")
      [] OTHER -> <<Add("function_calls", "data", p.flag, "none")>>

\* queue(package, priority): if not package: return False
QueueCall(self, p, priority) ==
    /\ qpc[self] = "idle"
    /\ rpc[self] = "idle"
    /\ IF p.type = "empty"
       THEN /\ ql' = [ql EXCEPT ![self] = [NoQLocals EXCEPT !.ret = "False"]]
            /\ UNCHANGED qpc
       ELSE /\ ql' = [ql EXCEPT ![self] =
                        [package |-> p, priority |-> priority, route |-> Route(p),
                         i |-> 1, ret |-> "none"]]
            /\ qpc' = [qpc EXCEPT ![self] = "q_item"]
    /\ UNCHANGED <<gvars, wvars, rvars, cvars, bvars, mvars, pvars>>

\* the next add_function_call / add_api_request / add_rate_limit of the call
QItem(self, rand) ==
    /\ qpc[self] = "q_item"
    /\ ql[self].i <= Len(ql[self].route)
    /\ LET a == ql[self].route[ql[self].i]
       IN  Enqueue(self, a.cat, [id |-> next_id, flag |-> a.flag, src |-> a.src], rand)
    /\ next_id' = next_id + 1
    /\ ql' = [ql EXCEPT ![self].i = @ + 1]
    /\ UNCHANGED <<qpc, gvars, wvars, cvars, bvars, mvars, pvars>>

\* if priority == "high": self.dispatch("high_priority"); otherwise return True
QPriority(self) ==
    /\ qpc[self] = "q_item"
    /\ ql[self].i > Len(ql[self].route)
    /\ IF ql[self].priority = "high"
       THEN /\ qpc' = [qpc EXCEPT ![self] = "q_dispatch"]
            /\ rpc' = [rpc EXCEPT ![self] = "d_call"]
            /\ rl' = [rl EXCEPT ![self] = [NoRLocals EXCEPT !.reason = "high_priority"]]
            /\ rres' = [rres EXCEPT ![self] = NoRResult]
            /\ UNCHANGED ql
       ELSE /\ qpc' = [qpc EXCEPT ![self] = "idle"]
            /\ ql' = [ql EXCEPT ![self] = [NoQLocals EXCEPT !.ret = "True"]]
            /\ UNCHANGED <<rpc, rl, rres>>
    /\ UNCHANGED <<webhook_url, buffer_size, buffer, rlock, last_sync_time, sync_count,
                   failed_queue, payloads, next_id, retry_calls>>
    /\ UNCHANGED <<gvars, wvars, cvars, bvars, mvars, pvars>>

\* dispatch has returned into queue: return True
QReturn(self) ==
    /\ qpc[self] = "q_dispatch"
    /\ rpc[self] = "idle"
    /\ qpc' = [qpc EXCEPT ![self] = "idle"]
    /\ ql' = [ql EXCEPT ![self] = [NoQLocals EXCEPT !.ret = "True"]]
    /\ UNCHANGED <<gvars, wvars, rvars, cvars, bvars, mvars, pvars>>

\* the steps of a running queue call
QueueStep(self) ==
    \/ \E rand \in BOOLEAN : QItem(self, rand)
    \/ QPriority(self)
    \/ QReturn(self)

\* a Buffer call that has not returned has no value
NoLength == -1

\* locals of a Buffer method: the method, its category argument, and whether
\* the method is the caller of the _save_to_backup that is running
NoBLocals == [op |-> "none", category |-> "None", nested |-> FALSE]

\* locals of check_health
NoMLocals == [has_errors |-> FALSE, mark |-> 0]

\* no date, no abbreviation, no contract code, no abbreviation made of a code
NoDate == [year |-> 0, month |-> 0]
NoAbbrev == [n |-> 0, cycle |-> "none"]
NoCode == [raised |-> "none", text |-> <<>>]
NoBack == [raised |-> "none", n |-> 0, cycle |-> "none"]

\* the two parser functions are not being called
NoParserCall == today = NoDate /\ abbrev = NoAbbrev

(***************************************************************************)
(* Buffer (flow/queue.py)                                                  *)
(*                                                                         *)
(* Buffer.lock is a threading.Lock: it has no owner and cannot be taken a  *)
(* second time, by any thread, until it has been released.  An item is     *)
(* described by its category ("None" when add was given none).             *)
(***************************************************************************)

\* `with self.lock:` can be entered
BCanAcquire(l) == l = "none"

\* the categories a caller names
BufferCategories == {"None", "c"}

\* self.data[-self.max_size:] when the list is longer than max_size
TrimData(d) ==
    IF Len(d) > BufferMaxSize THEN SubSeq(d, Len(d) - BufferMaxSize + 1, Len(d)) ELSE d

\* [item for item in self.data if item.get("category") == category]
OfCategory(d, category) == SelectSeq(d, LAMBDA c : c = category)
\* [item for item in self.data if item.get("category") != category]
NotOfCategory(d, category) == SelectSeq(d, LAMBDA c : c # category)

\* add(item, category), get(count, category), clear(category) or
\* size(category) is called: the caller goes for the lock
BufferCall(self, op, category) ==
    /\ bpc[self] = "idle"
    /\ bpc' = [bpc EXCEPT ![self] = "b_lock"]
    /\ bl' = [bl EXCEPT ![self] = [op |-> op, category |-> category, nested |-> FALSE]]
    /\ bres' = [bres EXCEPT ![self] = NoLength]
    /\ UNCHANGED <<bdata, block>>
    /\ UNCHANGED <<gvars, wvars, rvars, cvars, qvars, mvars, pvars>>

\* with self.lock: (of add, get, clear and size)
BAcquire(self) ==
    /\ bpc[self] = "b_lock"
    /\ BCanAcquire(block)
    /\ block' = self
    /\ bpc' = [bpc EXCEPT ![self] = "b_body"]
    /\ UNCHANGED <<bdata, bl, bres>>
    /\ UNCHANGED <<gvars, wvars, rvars, cvars, qvars, mvars, pvars>>

\* add: self.data.append(item); trim; if len(self.data) % 100 == 0:
\* self._save_to_backup(); return len(self.data)
BAdd(self) ==
    /\ bpc[self] = "b_body" /\ bl[self].op = "add"
    /\ LET d == TrimData(Append(bdata, bl[self].category))
       IN  /\ bdata' = d
           /\ IF Len(d) % BackupEvery = 0
              THEN /\ bpc' = [bpc EXCEPT ![self] = "s_lock"]
                   /\ bl' = [bl EXCEPT ![self].nested = TRUE]
                   /\ UNCHANGED <<block, bres>>
              ELSE /\ bpc' = [bpc EXCEPT ![self] = "idle"]
                   /\ bres' = [bres EXCEPT ![self] = Len(d)]
                   /\ block' = "none"
                   /\ UNCHANGED bl
    /\ UNCHANGED <<gvars, wvars, rvars, cvars, qvars, mvars, pvars>>

\* clear: self.data = [...] or []; self._save_to_backup(); return len(self.data)
BClear(self) ==
    /\ bpc[self] = "b_body" /\ bl[self].op = "clear"
    /\ bdata' = IF bl[self].category # "None" THEN NotOfCategory(bdata, bl[self].category)
                ELSE <<>>
    /\ bpc' = [bpc EXCEPT ![self] = "s_lock"]
    /\ bl' = [bl EXCEPT ![self].nested = TRUE]
    /\ UNCHANGED <<block, bres>>
    /\ UNCHANGED <<gvars, wvars, rvars, cvars, qvars, mvars, pvars>>

\* get and size: the (number of) items asked for; the lock is released
BRead(self) ==
    /\ bpc[self] = "b_body" /\ bl[self].op \in {"get", "size"}
    /\ bres' = [bres EXCEPT ![self] =
                   IF bl[self].category # "None" THEN Len(OfCategory(bdata, bl[self].category))
                   ELSE Len(bdata)]
    /\ bpc' = [bpc EXCEPT ![self] = "idle"]
    /\ block' = "none"
    /\ UNCHANGED <<bdata, bl>>
    /\ UNCHANGED <<gvars, wvars, rvars, cvars, qvars, mvars, pvars>>

\* backup_task: time.sleep(backup_interval) is over, _save_to_backup is called
BackupCall(self) ==
    /\ bpc[self] = "idle"
    /\ bpc' = [bpc EXCEPT ![self] = "s_lock"]
    /\ bl' = [bl EXCEPT ![self] = [NoBLocals EXCEPT !.op = "backup"]]
    /\ UNCHANGED <<bdata, block, bres>>
    /\ UNCHANGED <<gvars, wvars, rvars, cvars, qvars, mvars, pvars>>

\* _save_to_backup: with self.lock: if not self.data: return; json.dump(...);
\* the lock is released on the way out.  A caller that came from add or
\* clear goes on to their return statement.
SaveToBackup(self) ==
    /\ bpc[self] = "s_lock"
    /\ BCanAcquire(block)
    /\ block' = "none"
    /\ bpc' = [bpc EXCEPT ![self] = IF bl[self].nested THEN "b_return" ELSE "idle"]
    /\ UNCHANGED <<bdata, bl, bres>>
    /\ UNCHANGED <<gvars, wvars, rvars, cvars, qvars, mvars, pvars>>

\* the steps of a running Buffer method
BufferStep(self) ==
    \/ BAcquire(self)
    \/ BAdd(self)
    \/ BClear(self)
    \/ BRead(self)
    \/ SaveToBackup(self)

(***************************************************************************)
(* Collector (beam/metrics.py)                                             *)
(*                                                                         *)
(* Collector.metrics maps each kind to a list object.  _send_metrics       *)
(* iterates a list object while record may append to it, and then binds    *)
(* the kind to a fresh list, so a list is modelled by its identity (its    *)
(* index in `lists`): a thread keeps iterating the object it fetched even  *)
(* after the kind has been bound to another one.  No method of the         *)
(* Collector takes a lock; the interpreter may switch threads between any  *)
(* two of the steps below.                                                 *)
(***************************************************************************)

NoCLocals == [metric_type |-> "none", priority |-> "None", k |-> 0, data_list |-> 0,
              i |-> 0, ret |-> "idle"]

\* sum(len(metric_list) for metric_list in self.metrics.values())
TotalMetrics ==
    Len(lists[metrics["function"]]) + Len(lists[metrics["rate_limit"]])
        + Len(lists[metrics["request"]]) + Len(lists[metrics["error"]])

\* the Conduit buffer the track_* function of a kind enqueues into
TrackCategoryBroken(kind) ==
    CASE kind = "function" -> "function_calls"
      [] kind = "rate_limit" -> "api_requests"
      [] kind = "request" -> "rate_limits"
TrackCategory(kind) ==
    CASE kind = "function" -> "function_calls"
      [] kind = "rate_limit" -> "rate_limits"
      [] kind = "request" -> "api_requests"

\* record(metric_type, data, priority): the metric is appended to the list of
\* its kind, or to the "function" list when the kind is not a key of metrics.
\* flag is data["success"] of a function metric and data["is_exceeded"] of a
\* rate-limit metric.  'google.colab' is not among the loaded modules.
RecordCall(self, metric_type, priority, flag) ==
    /\ cpc[self] = "idle"
    /\ LET kind == IF metric_type \in Kinds THEN metric_type ELSE "function"
           data == [id |-> Len(recorded) + 1, flag |-> flag]
       IN  lists' = [lists EXCEPT ![metrics[kind]] = Append(@, data)]
    /\ recorded' = Append(recorded, [id |-> Len(recorded) + 1, metric_type |-> metric_type])
    /\ function_count' = IF metric_type = "function" THEN function_count + 1
                         ELSE function_count
    /\ cl' = [cl EXCEPT ![self] =
                 [NoCLocals EXCEPT !.metric_type = metric_type, !.priority = priority]]
    /\ cpc' = [cpc EXCEPT ![self] = "c_size"]
    /\ UNCHANGED <<metrics, gvars, wvars, rvars, qvars, bvars, mvars, pvars>>

\* sum(len(...)) >= self.thresholds["buffer_size"]
BufferFullBroken(total) == total > MetricsBufferSize
BufferFull(total) == total >= MetricsBufferSize

\* if sum(len(...)) >= self.thresholds["buffer_size"]: self._send_metrics()
CSizeCheck(self) ==
    /\ cpc[self] = "c_size"
    /\ IF BufferFull(TotalMetrics)
       THEN /\ cpc' = [cpc EXCEPT ![self] = "s_kind"]
            /\ cl' = [cl EXCEPT ![self].k = 1, ![self].ret = "c_prio"]
       ELSE /\ cpc' = [cpc EXCEPT ![self] = "c_prio"]
            /\ UNCHANGED cl
    /\ UNCHANGED <<lists, metrics, function_count, recorded, gvars, wvars, rvars, qvars, bvars, mvars, pvars>>

\* if priority == "high" or (metric_type == "error"): self._send_metrics()
CPrioCheck(self) ==
    /\ cpc[self] = "c_prio"
    /\ IF cl[self].priority = "high" \/ cl[self].metric_type = "error"
       THEN /\ cpc' = [cpc EXCEPT ![self] = "s_kind"]
            /\ cl' = [cl EXCEPT ![self].k = 1, ![self].ret = "idle"]
       ELSE /\ cpc' = [cpc EXCEPT ![self] = "idle"]
            /\ cl' = [cl EXCEPT ![self] = NoCLocals]
    /\ UNCHANGED <<lists, metrics, function_count, recorded, gvars, wvars, rvars, qvars, bvars, mvars, pvars>>

\* for metric_type, data_list in self.metrics.items(): if not data_list:
\* continue; and the return of _send_metrics once the kinds are exhausted
SKind(self) ==
    /\ cpc[self] = "s_kind"
    /\ IF cl[self].k > Len(KindOrder)
       THEN /\ cpc' = [cpc EXCEPT ![self] = cl[self].ret]
            /\ cl' = [cl EXCEPT ![self] =
                         IF cl[self].ret = "idle" THEN NoCLocals
                         ELSE [@ EXCEPT !.k = 0, !.data_list = 0, !.i = 0]]
       ELSE LET dl == metrics[KindOrder[cl[self].k]]
            IN  IF lists[dl] = <<>>
                THEN /\ cl' = [cl EXCEPT ![self].k = @ + 1]
                     /\ UNCHANGED cpc
                ELSE /\ cl' = [cl EXCEPT ![self].data_list = dl, ![self].i = 1]
                     /\ cpc' = [cpc EXCEPT ![self] = "s_item"]
    /\ UNCHANGED <<lists, metrics, function_count, recorded, gvars, wvars, rvars, qvars, bvars, mvars, pvars>>

\* for data in data_list: one iteration, which hands the metric to the
\* track_* function of its kind (there is none for "error"), or the end of
\* the loop when the iterator has passed the end of the list object
SItem(self, rand) ==
    /\ cpc[self] = "s_item"
    /\ LET kind == KindOrder[cl[self].k]
           lst == lists[cl[self].data_list]
       IN  IF cl[self].i > Len(lst)
           THEN /\ cpc' = [cpc EXCEPT ![self] = "s_reset"]
                /\ UNCHANGED <<cl, rvars>>
           ELSE /\ cl' = [cl EXCEPT ![self].i = @ + 1]
                /\ UNCHANGED cpc
                /\ IF kind = "error"
                   THEN UNCHANGED rvars
                   ELSE /\ Enqueue(self, TrackCategory(kind), lst[cl[self].i], rand)
                        /\ UNCHANGED next_id
    /\ UNCHANGED <<lists, metrics, function_count, recorded, gvars, wvars, qvars, bvars, mvars, pvars>>

\* self.metrics[metric_type] = []
SReset(self) ==
    /\ cpc[self] = "s_reset"
    /\ lists' = Append(lists, <<>>)
    /\ metrics' = [metrics EXCEPT ![KindOrder[cl[self].k]] = Len(lists) + 1]
    /\ cl' = [cl EXCEPT ![self].k = @ + 1, ![self].data_list = 0, ![self].i = 0]
    /\ cpc' = [cpc EXCEPT ![self] = "s_kind"]
    /\ UNCHANGED <<function_count, recorded, gvars, wvars, rvars, qvars, bvars, mvars, pvars>>

\* the steps of a running record call
RecordStep(self) ==
    \/ CSizeCheck(self)
    \/ CPrioCheck(self)
    \/ SKind(self)
    \/ \E rand \in BOOLEAN : SItem(self, rand)
    \/ SReset(self)

(***************************************************************************)
(* Monitor (beam/pulse.py)                                                 *)
(***************************************************************************)

\* resource_usage > 80, for the fraction usage() computed
HighUsage(pct) == pct[1] > HighUsagePercent * pct[2]

\* self.status_history[-10:] when the history is longer than 10
KeepHistory(h) ==
    IF Len(h) > StatusHistoryMax THEN SubSeq(h, Len(h) - StatusHistoryMax + 1, Len(h))
    ELSE h

\* check_health is called: self.last_check = time.time()
HBegin(self) ==
    /\ mpc[self] = "idle"
    /\ last_check' = now
    /\ mpc' = [mpc EXCEPT ![self] = "h_summary"]
    /\ UNCHANGED <<health_status, error_count, warning_count, status_history, ml, checked>>
    /\ UNCHANGED <<gvars, wvars, rvars, cvars, qvars, bvars, pvars>>

\* metrics_summary = collector.get_metrics_summary(): the length of every
\* list of the Collector; has_errors = metrics_summary.get("error", 0) > 0
HSummary(self) ==
    /\ mpc[self] = "h_summary"
    /\ ml' = [ml EXCEPT ![self] = [has_errors |-> Len(lists[metrics["error"]]) > 0,
                                   mark |-> Len(recorded)]]
    /\ mpc' = [mpc EXCEPT ![self] = "h_usage"]
    /\ UNCHANGED <<health_status, error_count, warning_count, status_history, last_check,
                   checked>>
    /\ UNCHANGED <<gvars, wvars, rvars, cvars, qvars, bvars, pvars>>

\* resource_usage = guardian.usage() has returned; the status is determined,
\* counted, appended to the history, and returned
HDecide(self) ==
    /\ mpc[self] = "h_usage"
    /\ gpc[self] = "returned" /\ gres[self].op = "usage"
    /\ LET has_errors == ml[self].has_errors
           high_usage == HighUsage(gl[self].pct)
           status == IF has_errors /\ high_usage THEN "critical"
                     ELSE IF has_errors \/ high_usage THEN "warning"
                     ELSE "healthy"
       IN  /\ health_status' = status
           /\ error_count' = IF status = "critical" THEN error_count + 1 ELSE error_count
           /\ warning_count' = IF status = "warning" THEN warning_count + 1
                                ELSE warning_count
           /\ status_history' = KeepHistory(Append(status_history,
                                    [status |-> status, resource_usage |-> gl[self].pct]))
    /\ checked' = Append(checked, ml[self].mark)
    /\ mpc' = [mpc EXCEPT ![self] = "idle"]
    /\ ml' = [ml EXCEPT ![self] = NoMLocals]
    /\ gpc' = [gpc EXCEPT ![self] = "idle"]
    /\ gl' = [gl EXCEPT ![self] = NoLocals]
    /\ UNCHANGED <<now, ticks, calls, usage_counters, gres, accepted, emitted, last_check>>
    /\ UNCHANGED <<wvars, rvars, cvars, qvars, bvars, pvars>>

(***************************************************************************)
(* vn30_expand_contract, vn30_abbrev_contract (core/utils/parser.py)       *)
(*                                                                         *)
(* A date is its year and month (neither function reads the day).  The     *)
(* abbreviation 'VN30F<n><M|Q>' is its sequence number and cycle letter;   *)
(* the full code 'VN30FYYMM' is the sequence of decimal digits that        *)
(* follows 'VN30F'.  A call that raises is described by the exception.     *)
(***************************************************************************)

\* _QUARTER_MONTHS = [3, 6, 9, 12]
QuarterMonths == <<3, 6, 9, 12>>

\* str(v) for v >= 0, as a sequence of decimal digits
RECURSIVE DecimalDigits(_)
DecimalDigits(v) == IF v < 10 THEN <<v>> ELSE Append(DecimalDigits(v \div 10), v % 10)

\* f"{v:02d}": the decimal digits, with a leading zero when there is one only
TwoDigits(v) == IF v < 10 THEN <<0, v>> ELSE DecimalDigits(v)

\* int(m.group(k)) for a group of two digits
ParseTwo(d) == 10 * d[1] + d[2]

\* seq.index(mm) + 1: the first position of mm (0 when it is at none)
IndexOf(seq, mm) ==
    IF \E i \in DOMAIN seq : seq[i] = mm
    THEN CHOOSE i \in DOMAIN seq : seq[i] = mm /\ \A k \in 1..(i - 1) : seq[k] # mm
    ELSE 0

\* future_q + _QUARTER_MONTHS
QuarterSeq(month) == SelectSeq(QuarterMonths, LAMBDA q : q > month) \o QuarterMonths

Returned(yy, mm) == [raised |-> "none", text |-> TwoDigits(yy) \o TwoDigits(mm)]
RaisedCode(e) == [raised |-> e, text |-> <<>>]

\* vn30_expand_contract(abbrev, today) for a well-formed abbreviation
vn30_expand_contract(a, t) ==
    LET yy == t.year % 100
        seq == QuarterSeq(t.month)
    IN  IF a.cycle = "Q" /\ a.n > Len(seq) THEN RaisedCode("ValueError")
        ELSE LET mm == IF a.cycle = "M" THEN t.month + (a.n - 1) ELSE seq[a.n]
                 add_years == (mm - 1) \div 12
             IN  Returned((yy + add_years) % 100, ((mm - 1) % 12) + 1)

\* vn30_abbrev_contract(full, today)
vn30_abbrev_contract(f, t) ==
    IF Len(f.text) # 4 THEN [NoBack EXCEPT !.raised = "ValueError"]
    ELSE
    LET yy == ParseTwo(SubSeq(f.text, 1, 2))
        mm == ParseTwo(SubSeq(f.text, 3, 4))
        century == t.year - (t.year % 100)
        year == IF mm < t.month THEN century + yy + 100 ELSE century + yy
        delta == (year - t.year) * 12 + (mm - t.month)
        quarter == \E i \in DOMAIN QuarterMonths : QuarterMonths[i] = mm
        n == IF quarter THEN IndexOf(QuarterSeq(t.month), mm) ELSE delta + 1
    IN  IF mm < 1 \/ mm > 12 THEN [NoBack EXCEPT !.raised = "ValueError"]
        ELSE IF delta < 0 THEN [NoBack EXCEPT !.raised = "ValueError"]
        ELSE IF ~(1 <= n /\ n <= 9) THEN [NoBack EXCEPT !.raised = "ValueError"]
        ELSE [raised |-> "none", n |-> n, cycle |-> IF quarter THEN "Q" ELSE "M"]

\* the caller expands the abbreviation
Expand ==
    /\ ppc = "idle"
    /\ full' = vn30_expand_contract(abbrev, today)
    /\ ppc' = "expanded"
    /\ UNCHANGED <<today, abbrev, back>>
    /\ UNCHANGED <<gvars, wvars, rvars, cvars, qvars, bvars, mvars>>

\* ... and abbreviates the code it got, for the same date
Abbreviate ==
    /\ ppc = "expanded"
    /\ full.raised = "none"
    /\ back' = vn30_abbrev_contract(full, today)
    /\ ppc' = "done"
    /\ UNCHANGED <<today, abbrev, full>>
    /\ UNCHANGED <<gvars, wvars, rvars, cvars, qvars, bvars, mvars>>

vars == <<gvars, wvars, rvars, cvars, qvars, bvars, mvars, pvars>>

InitState ==
    /\ now = Epoch
    /\ ticks = 0
    /\ calls = 0
    /\ usage_counters = [r \in ResourceTypes \cup {DefaultType} |-> [min |-> <<>>, hour |-> <<>>]]
    /\ gpc = [c \in Callers |-> "idle"]
    /\ gl = [c \in Callers |-> NoLocals]
    /\ gres = [c \in Callers |-> NoResult]
    /\ accepted = [r \in ResourceTypes \cup {DefaultType} |-> <<>>]
    /\ emitted = [c \in Callers |-> <<>>]
    /\ call_history = <<>>
    /\ last_ad_time = 0
    /\ consecutive_loop_detections = 0
    /\ session_displayed = FALSE
    /\ session_start_time = Epoch
    /\ wpc = [c \in Callers |-> "idle"]
    /\ wl = [c \in Callers |-> NoWLocals]
    /\ wres = [c \in Callers |-> NoWResult]
    /\ shown = <<>>
    /\ invoked = <<>>
    /\ passes = <<>>
    /\ buffer = EmptyBuffer
    /\ rlock = "none"
    /\ sync_count = 0
    /\ failed_queue = <<>>
    /\ rpc = [c \in Threads |-> "idle"]
    /\ rl = [c \in Threads |-> NoRLocals]
    /\ rres = [c \in Threads |-> NoRResult]
    /\ payloads = <<>>
    /\ next_id = 1
    /\ retry_calls = 0
    /\ lists = [k \in DOMAIN KindOrder |-> <<>>]
    /\ metrics = [kind \in Kinds |-> CHOOSE k \in DOMAIN KindOrder : KindOrder[k] = kind]
    /\ function_count = 0
    /\ cpc = [c \in Callers |-> "idle"]
    /\ cl = [c \in Callers |-> NoCLocals]
    /\ recorded = <<>>
    /\ qpc = [c \in Callers |-> "idle"]
    /\ ql = [c \in Callers |-> NoQLocals]
    /\ bdata = <<>>
    /\ block = "none"
    /\ bpc = [c \in BufferThreads |-> "idle"]
    /\ bl = [c \in BufferThreads |-> NoBLocals]
    /\ bres = [c \in BufferThreads |-> NoLength]
    /\ health_status = "healthy"
    /\ error_count = 0
    /\ warning_count = 0
    /\ status_history = <<>>
    /\ last_check = Epoch
    /\ mpc = [c \in Callers |-> "idle"]
    /\ ml = [c \in Callers |-> NoMLocals]
    /\ checked = <<>>
    /\ full = NoCode
    /\ back = NoBack
    /\ ppc = "idle"

Init ==
    /\ InitState /\ max_retries = MaxRetries /\ buffer_size = BufferSize /\ NoParserCall
    /\ webhook_url = "None" /\ last_sync_time = Epoch

\* the decoration may be given any max_retries argument
InitW ==
    /\ InitState /\ max_retries \in 0..MaxRetries /\ buffer_size = BufferSize /\ NoParserCall
    /\ webhook_url = "None" /\ last_sync_time = Epoch

\* the Conduit with an endpoint configured (configure(url), or relay_config.json)
\* and the last_sync_time a run one minute earlier saved there (_load_config)
InitR ==
    /\ InitState /\ max_retries = MaxRetries /\ buffer_size = BufferSize /\ NoParserCall
    /\ webhook_url = "url" /\ last_sync_time = Epoch - MinuteWindow

\* the same Conduit constructed with a larger buffer_size, so that records of
\* several categories can be buffered together below the size trigger
InitT ==
    /\ InitState /\ max_retries = MaxRetries /\ buffer_size = BufferSizeT /\ NoParserCall
    /\ webhook_url = "url" /\ last_sync_time = Epoch - MinuteWindow

VerifyStep(self) ==
    \/ VMinFilter(self)
    \/ VMinStore(self)
    \/ VMinCheck(self)
    \/ VHourFilter(self)
    \/ VHourStore(self)
    \/ VHourCheck(self)
    \/ VAppendMin(self)
    \/ VAppendHour(self)

\* one caller, calling verify directly.  A call reads the clock once, at its
\* entry, so for a single caller a clock advance during the call is the same
\* as one right after it: Tick is taken between calls.
Next ==
    \/ \E d \in TickSteps :
          ticks < MaxTicks /\ gpc[MainThread] = "idle" /\ Tick(d)
    \/ \E r \in Resources :
          calls < MaxCalls /\ VerifyCall(MainThread, r)
    \/ VerifyStep(MainThread)
    \/ GReturn(MainThread)

Spec == Init /\ [][Next]_vars

\* concurrent callers of verify on the same Guardian (threads of one process);
\* the clock may advance between any two steps
NextMT ==
    \/ \E d \in TickSteps : ticks < MaxTicksMT /\ Tick(d)
    \/ \E c \in Callers, r \in Resources :
          calls < MaxCallsMT /\ VerifyCall(c, r)
    \/ \E c \in Callers : VerifyStep(c)
    \/ \E c \in Callers : GReturn(c)

SpecMT == Init /\ [][NextMT]_vars

\* one caller, calling verify and usage directly, one call after the other
NextU ==
    \/ \E d \in TickSteps :
          ticks < MaxTicksU /\ gpc[MainThread] = "idle" /\ Tick(d)
    \/ \E r \in Resources :
          calls < MaxCallsU /\ VerifyCall(MainThread, r)
    \/ \E r \in Resources :
          calls < MaxCallsU /\ UsageCall(MainThread, r)
    \/ VerifyStep(MainThread)
    \/ UsageStep(MainThread)
    \/ GReturn(MainThread)

SpecU == Init /\ [][NextU]_vars

\* one caller, calling verify and usage on a resource type that has its own
\* limits and on one that has not, one call after the other
NextRT ==
    \/ \E d \in TickSteps :
          ticks < MaxTicksRT /\ gpc[MainThread] = "idle" /\ Tick(d)
    \/ \E r \in ResourceTypes :
          calls < MaxCallsRT /\ VerifyCall(MainThread, r)
    \/ \E r \in ResourceTypes :
          calls < MaxCallsRT /\ UsageCall(MainThread, r)
    \/ VerifyStep(MainThread)
    \/ UsageStep(MainThread)
    \/ GReturn(MainThread)

SpecRT == Init /\ [][NextRT]_vars

\* one caller invoking the function wrapped by optimize; the clock advances
\* anywhere outside the steps of verify (verify reads it once, at its entry)
NextW ==
    \/ \E d \in TickStepsW :
          ticks < MaxTicksW /\ gpc[MainThread] = "idle" /\ Tick(d)
    \/ calls < MaxCallsW /\ WCall(MainThread)
    \/ WLoop(MainThread)
    \/ WVerify(MainThread)
    \/ VerifyStep(MainThread)
    \/ WAfterVerify(MainThread)
    \/ \E o \in FuncOutcomes : WExec(MainThread, o)

SpecW == InitW /\ [][NextW]_vars

\* the Conduit with an endpoint configured: a caller enqueues records while
\* dispatch runs concurrently on the periodic sync thread (d1, whenever it is
\* not already dispatching) and on the threads _check_triggers starts.  These
\* threads handle every failed transmission alike (SendData) and nobody reads
\* what they return, so one failure stands for the three.
NextR ==
    \/ \E in \in RecordInputs, rand \in BOOLEAN :
          next_id <= MaxRecords /\ AddRecord(MainThread, in[1], in[2], rand)
    \/ DispatchCall(PeriodicThread, "periodic")
    \/ \E t \in Dispatchers : DispatchStep(t, {"200", "timeout"})

SpecR == InitR /\ [][NextR]_vars

\* the Conduit with an endpoint that is down (every transmission fails): the
\* main thread enqueues a record and calls dispatch, one call after the other,
\* while a second thread may call retry_failed, once
NextFQ ==
    \/ /\ TotalRecords(buffer) = 0
       /\ next_id <= MaxDispatches
       /\ AddRecord(MainThread, "function_calls", TRUE, FALSE)
    \/ /\ TotalRecords(buffer) > 0
       /\ DispatchCall(MainThread, "manual")
    \/ DCheckUrl(MainThread)
    \/ DLock(MainThread)
    \/ DCopy(MainThread)
    \/ DClear(MainThread)
    \/ DBuild(MainThread)
    \/ DSend(MainThread, "network_error")
    \/ DFailed(MainThread)
    \/ retry_calls = 0 /\ RetryCall("t2")
    \/ RetryTake("t2")
    \/ RetrySend("t2", "network_error")
    \/ RetryRequeue("t2")
    \/ RetryReturn("t2")

SpecFQ == InitR /\ [][NextFQ]_vars

\* the Conduit with an endpoint configured and one caller, which enqueues
\* records that start no dispatch thread, calls dispatch (sync_now) and calls
\* retry_failed, one call after the other; a transmission may end in any way
NextS ==
    \/ \E in \in {<<"function_calls", TRUE>>, <<"api_requests", TRUE>>} :
          /\ TotalRecords(buffer) + 1 < buffer_size
          /\ next_id <= MaxRecordsS
          /\ AddRecord(MainThread, in[1], in[2], FALSE)
    \/ DispatchCall(MainThread, "manual")
    \/ DispatchStep(MainThread, SendOutcomes)
    \/ retry_calls < MaxRetryCalls /\ RetryCall(MainThread)
    \/ RetryTake(MainThread)
    \/ \E o \in SendOutcomes : RetrySend(MainThread, o)
    \/ RetryRequeue(MainThread)
    \/ RetryReturn(MainThread)

SpecS == InitR /\ [][NextS]_vars

\* one caller of the Conduit that sets and clears the endpoint with
\* configure, enqueues records (one at a time, so that no trigger starts a
\* dispatch thread) and calls dispatch, one call after the other
NextE ==
    \/ \E in \in {<<"function_calls", TRUE>>, <<"api_requests", TRUE>>} :
          /\ TotalRecords(buffer) + 1 < buffer_size
          /\ next_id <= MaxRecordsE
          /\ AddRecord(MainThread, in[1], in[2], FALSE)
    \/ \E url \in {"None", "url"} : Configure(MainThread, url)
    \/ DispatchCall(MainThread, "manual")
    \/ DispatchStep(MainThread, SendOutcomes)

SpecE == InitR /\ [][NextE]_vars

\* a caller enqueues records of every category while the dispatch threads
\* that _check_triggers starts run concurrently
NextT ==
    \/ \E in \in RecordInputs, rand \in BOOLEAN :
          next_id <= MaxRecordsT /\ AddRecord(MainThread, in[1], in[2], rand)
    \/ \E j \in DOMAIN TriggerThreads : DispatchStep(TriggerThreads[j], {"200", "timeout"})

SpecT == InitT /\ [][NextT]_vars

\* a caller of Conduit.queue, one call after the other, with the dispatch
\* threads its enqueues start and the dispatch a high priority asks for
NextQ ==
    \/ \E p \in QueuePackages, priority \in {"None", "high"} :
          next_id <= MaxRecordsQ /\ QueueCall(MainThread, p, priority)
    \/ QueueStep(MainThread)
    \/ \E t \in {MainThread} \cup {TriggerThreads[j] : j \in DOMAIN TriggerThreads} :
          DispatchStep(t, {"200", "timeout"})

SpecQ == InitR /\ [][NextQ]_vars

\* a caller of the Buffer, one call after the other, next to the backup
\* thread: the first MaxTagged items may be added with a category, the
\* others are added without
NextB ==
    \/ \E category \in BufferCategories :
          /\ category # "None" => Len(bdata) < MaxTagged
          /\ BufferCall(MainThread, "add", category)
    \/ \E op \in {"get", "clear", "size"}, category \in BufferCategories :
          BufferCall(MainThread, op, category)
    \/ BufferStep(MainThread)
    \/ BackupCall(BackupThread)
    \/ BufferStep(BackupThread)

\* every thread that can take a step is given one in the end
SpecB ==
    /\ Init /\ [][NextB]_vars
    /\ WF_vars(BufferStep(MainThread)) /\ WF_vars(BufferStep(BackupThread))

\* the Conduit with an endpoint configured, a caller whose records start no
\* dispatch thread and who may call dispatch itself (sync_now), and the
\* periodic sync thread: while True: sleep(sync_interval); dispatch("periodic")
NextL ==
    \/ \E in \in {<<"function_calls", TRUE>>, <<"api_requests", TRUE>>} :
          /\ TotalRecords(buffer) + 1 < buffer_size
          /\ next_id <= MaxRecordsL
          /\ AddRecord(MainThread, in[1], in[2], FALSE)
    \/ DispatchCall(MainThread, "manual")
    \/ DispatchStep(MainThread, SendOutcomes)
    \/ PeriodicSync

\* the periodic sync thread is scheduled again and again, and a thread that
\* is inside dispatch goes on running
SpecL ==
    /\ InitR /\ [][NextL]_vars
    /\ WF_vars(PeriodicSync)
    /\ WF_vars(DispatchStep(MainThread, SendOutcomes))

\* the metrics callers pass to record: an ordinary function metric, a
\* high-priority rate-limit metric, an API-request metric, an error metric,
\* and one of a kind the Collector has no list for
MetricInputs == {<<"function", "None", TRUE>>, <<"rate_limit", "high", FALSE>>,
                 <<"request", "None", TRUE>>, <<"error", "None", TRUE>>,
                 <<"system_info", "None", TRUE>>}

\* concurrent callers of Collector.record, on a process whose Conduit has no
\* endpoint configured: the dispatch threads the Conduit starts return at once
\* and the forwarded records stay in its buffers
NextC ==
    \/ \E c \in Callers, in \in MetricInputs :
          Len(recorded) < MaxMetrics /\ RecordCall(c, in[1], in[2], in[3])
    \/ \E c \in Callers : RecordStep(c)
    \/ \E d \in Dispatchers : DCheckUrl(d)

SpecC == Init /\ [][NextC]_vars

\* one caller of Collector.record, one call after the other, on the same
\* process
NextCS ==
    \/ \E in \in MetricInputs :
          Len(recorded) < MaxMetricsS /\ RecordCall(MainThread, in[1], in[2], in[3])
    \/ RecordStep(MainThread)
    \/ \E d \in Dispatchers : DCheckUrl(d)

SpecCS == Init /\ [][NextCS]_vars

\* one thread of a process without endpoint that calls verify and usage
\* without naming a resource type, records metrics with the Collector, and
\* runs check_health (monitor.report() or the check of the Monitor's thread),
\* one call after the other
Quiet(t) == gpc[t] = "idle" /\ cpc[t] = "idle" /\ mpc[t] = "idle"

NextM ==
    \/ \E d \in TickSteps : ticks < MaxTicksM /\ Quiet(MainThread) /\ Tick(d)
    \/ /\ calls < MaxCallsM /\ Quiet(MainThread)
       /\ VerifyCall(MainThread, DefaultType)
    \/ VerifyStep(MainThread)
    \/ mpc[MainThread] = "idle" /\ GReturn(MainThread)
    \/ \E in \in MetricInputs :
          /\ Len(recorded) < MaxMetricsM /\ Quiet(MainThread)
          /\ RecordCall(MainThread, in[1], in[2], in[3])
    \/ RecordStep(MainThread)
    \/ \E d \in Dispatchers : DCheckUrl(d)
    \/ Len(checked) < MaxChecks /\ Quiet(MainThread) /\ HBegin(MainThread)
    \/ HSummary(MainThread)
    \/ mpc[MainThread] = "h_usage" /\ UsageCall(MainThread, DefaultType)
    \/ UsageStep(MainThread)
    \/ HDecide(MainThread)

SpecM == Init /\ [][NextM]_vars

\* the reference dates: every month of a year and of the last year of a
\* century; the abbreviations: every sequence number with either cycle
Years == {2025, 2099}
Dates == [year : Years, month : 1..12]
Abbrevs == [n : 1..9, cycle : {"M", "Q"}]

InitP ==
    /\ InitState /\ max_retries = MaxRetries /\ buffer_size = BufferSize
    /\ webhook_url = "None" /\ last_sync_time = Epoch
    /\ today \in Dates /\ abbrev \in Abbrevs

NextP == Expand \/ Abbreviate

SpecP == InitP /\ [][NextP]_vars

(***************************************************************************)
(* Claims about the Guardian                                               *)
(***************************************************************************)

\* accepted verify calls of resource r with timestamp in (lo, hi]
AcceptedIn(hist, lo, hi) ==
    Cardinality({i \in DOMAIN hist : hist[i] > lo /\ hist[i] <= hi})

\* the times at which a trailing window can hold the most accepted calls: the
\* count over (t-w, t] only grows when t reaches an accepted timestamp
WindowEnds(r) == {now} \cup {accepted[r][i] : i \in DOMAIN accepted[r]}

\* C1: for a single caller under a non-decreasing clock, at every time t the
\* accepted verify calls with timestamp in (t-60, t] never exceed the minute
\* limit, and those in (t-3600, t] never exceed the hour limit.
C1_WindowCorrect ==
    \A r \in Resources : \A t \in WindowEnds(r) :
        /\ AcceptedIn(accepted[r], t - MinuteWindow, t) <= resource_limits(r).min
        /\ AcceptedIn(accepted[r], t - HourWindow, t) <= resource_limits(r).hour

\* a call was rejected on the minute limit after the window had already rolled
\* over once (more calls accepted in total than one minute allows)
C1_Witness ==
    /\ gres[MainThread].outcome = "min"
    /\ Len(accepted["X"]) > MinLimit

\* the accepted calls that preceded the last finished call of the main thread
PriorAccepted(r) ==
    IF gres[MainThread].outcome = "ok"
    THEN SubSeq(accepted[r], 1, Len(accepted[r]) - 1)
    ELSE accepted[r]

\* C6: when verify is called while the minute-window count is at or above the
\* minute limit and the hour-window count is at or above the hour limit, the
\* error raised has limit_type "min".
C6_TieBreakMinute ==
    LET g == gres[MainThread] IN
    (/\ g.op = "verify"
     /\ AcceptedIn(PriorAccepted(g.r), g.t - MinuteWindow, g.t) >= resource_limits(g.r).min
     /\ AcceptedIn(PriorAccepted(g.r), g.t - HourWindow, g.t) >= resource_limits(g.r).hour)
    => g.outcome = "min"

\* a call rejected with "min" while the hour window was full as well
C6_Witness ==
    LET g == gres[MainThread] IN
    /\ g.outcome = "min"
    /\ AcceptedIn(accepted[g.r], g.t - HourWindow, g.t) >= resource_limits(g.r).hour

\* what the claim says a verify call at time t must answer
ExpectedOutcome(hist, r, t) ==
    IF AcceptedIn(hist, t - MinuteWindow, t) >= resource_limits(r).min THEN "min"
    ELSE IF AcceptedIn(hist, t - HourWindow, t) >= resource_limits(r).hour THEN "hour"
    ELSE "ok"

\* C7: a verify call at time t is rejected with "min" iff at least minute-limit
\* previously accepted calls have timestamps in (t-60, t]; failing that, with
\* "hour" iff at least hour-limit accepted calls have timestamps in
\* (t-3600, t]; otherwise it is accepted.
C7_RejectedIffWindowFull ==
    LET g == gres[MainThread] IN
    g.op = "verify" => g.outcome = ExpectedOutcome(PriorAccepted(g.r), g.r, g.t)

\* the scenario of the specification: calls at t = 0 and 1 accepted, the call
\* at t = 2 rejected (so nothing recorded at 2), the call at t = 61 accepted
C7_Witness ==
    /\ gres[MainThread].outcome = "ok"
    /\ gres[MainThread].t = Epoch + 61
    /\ accepted["X"] = <<Epoch, Epoch + 1, Epoch + 61>>

\* the multiset of timestamps of hist newer than cutoff is contained in window
Kept(hist, window, cutoff) ==
    \A i \in DOMAIN hist : hist[i] > cutoff =>
        AcceptedIn(window, hist[i] - 1, hist[i]) >= AcceptedIn(hist, hist[i] - 1, hist[i])

\* C8: under concurrent callers of verify on one resource type the minute
\* window never records more accepted calls than the minute limit, and no
\* accepted call's timestamp that is still inside a window is lost from it.
C8_ConcurrentWindows ==
    \A r \in Resources :
        /\ Len(usage_counters[r].min) <= resource_limits(r).min
        /\ Kept(accepted[r], usage_counters[r].hour, now - HourWindow)

\* the timestamps of window w never go down
NonDecreasing(w) == \A i, j \in DOMAIN w : i <= j => w[i] <= w[j]

\* window new is window old with entries dropped from the front, or with one
\* timestamp appended at the end
FrontDropOrAppend(old, new) ==
    \/ \E k \in 0..Len(old) : new = SubSeq(old, k + 1, Len(old))
    \/ \E i \in DOMAIN new : i = Len(new) /\ new = Append(old, new[i])

\* C22: also under concurrent verify callers, the timestamps stored in each
\* window of a resource type form a non-decreasing sequence, and a window only
\* changes by an append at its end or by dropping entries from its front.
C22_WindowsOrdered ==
    [][\A r \in Resources :
          /\ NonDecreasing(usage_counters'[r].min)
          /\ NonDecreasing(usage_counters'[r].hour)
          /\ FrontDropOrAppend(usage_counters[r].min, usage_counters'[r].min)
          /\ FrontDropOrAppend(usage_counters[r].hour, usage_counters'[r].hour)
      ]_vars

\* the limits the claim says resource type r is checked against
ClaimedLimits(r) ==
    IF r = "X" THEN [min |-> MinLimit, hour |-> HourLimit]
    ELSE [min |-> DefaultMinLimit, hour |-> DefaultHourLimit]

\* what a verify call at time t on r must answer, from r's own history
ClaimedOutcome(hist, r, t) ==
    IF AcceptedIn(hist, t - MinuteWindow, t) >= ClaimedLimits(r).min THEN "min"
    ELSE IF AcceptedIn(hist, t - HourWindow, t) >= ClaimedLimits(r).hour THEN "hour"
    ELSE "ok"

\* C26: quota windows of different resource types are independent.  No step
\* of a verify or usage call on one resource type changes the windows of
\* another; whether verify(r) is accepted follows from the accepted calls of r
\* alone; a resource type without its own limits is checked against the
\* default limits and keeps its own windows.
C26_ResourcesIndependent ==
    [][\A t \in Callers :
          /\ \A r \in ResourceTypes :
                (gpc[t] # "idle" /\ r # gl[t].r) =>
                   /\ usage_counters'[r] = usage_counters[r]
                   /\ accepted'[r] = accepted[r]
          /\ (gpc[t] \notin {"idle", "returned"} /\ gpc'[t] = "returned"
               /\ gres'[t].op = "verify") =>
                /\ gres'[t].outcome = ClaimedOutcome(accepted[gl[t].r], gl[t].r, gl[t].t)
                /\ gres'[t].outcome = "ok" =>
                      /\ accepted'[gl[t].r] = Append(accepted[gl[t].r], gl[t].t)
                      /\ Len(usage_counters'[gl[t].r].hour) >= 1
      ]_vars

\* the resource type without own limits holds as many calls as the default
\* minute limit allows in its own window, while the type with its own limits
\* holds more than that in its window and has just been accepted once more
C26_Witness ==
    /\ gpc[MainThread] = "returned"
    /\ gres[MainThread].op = "verify" /\ gres[MainThread].r = "X"
    /\ gres[MainThread].outcome = "ok"
    /\ Len(usage_counters["X"].min) > DefaultMinLimit
    /\ Len(usage_counters["Y"].min) = DefaultMinLimit
    /\ Len(accepted["Y"]) = DefaultMinLimit
    /\ calls = MaxCallsRT

\* what the minute check of a verify call entered at time t on resource r
\* finds in the present minute window: the list comprehension keeps the
\* timestamps above t - 60, and the call is rejected when as many as the
\* limit remain
MinuteRejects(r, t) ==
    Exceeded(Len(Purge(usage_counters[r].min, t - MinuteWindow)), resource_limits(r).min)

\* caller c enters verify in this step, and its previous call was a verify on
\* the same resource that was rejected for the minute limit at a time t with
\* retry_after = r, where t + r is the time of the present call
RetriesAtHint(c) ==
    /\ gpc[c] = "idle" /\ gpc'[c] = "v_min_filter"
    /\ gres[c].op = "verify" /\ gres[c].outcome = "min"
    /\ gl'[c].r = gres[c].r
    /\ gl'[c].t = gres[c].t + gres[c].retry_after

\* C31: the retry-after hint is sufficient: when a verify call at time t is
\* rejected for the minute limit with retry_after = r and the next call on
\* that resource is a verify at time t + r, that call is not rejected for the
\* minute limit.
C31_RetryAfterSufficient ==
    [][\A c \in Callers : RetriesAtHint(c) => ~MinuteRejects(gl'[c].r, gl'[c].t)]_vars

\* how many times timestamp v is in window w
CountOf(w, v) == Cardinality({i \in DOMAIN w : w[i] = v})

\* a verify call has appended current_time to the minute window and not yet
\* to the hour window
BetweenAppends == \E c \in Callers : gpc[c] = "v_append_hour"

\* C32: under one caller issuing verify and usage calls with a clock that
\* never runs backwards, for every resource type every timestamp in the
\* minute window is in the hour window, as many times, so the minute window
\* never holds more than the hour window.  (Inside verify, between its two
\* appends, the minute window is one entry ahead.)
C32_MinuteWithinHour ==
    ~BetweenAppends =>
        \A r \in ResourceTypes :
            /\ \A i \in DOMAIN usage_counters[r].min :
                   CountOf(usage_counters[r].min, usage_counters[r].min[i])
                       <= CountOf(usage_counters[r].hour, usage_counters[r].min[i])
            /\ Len(usage_counters[r].min) <= Len(usage_counters[r].hour)

\* a call has returned, and some resource type has a timestamp in its minute
\* window while its hour window also holds one the minute window has dropped
C32_Witness ==
    /\ gpc[MainThread] = "idle"
    /\ \E r \in ResourceTypes :
          /\ Len(usage_counters[r].min) >= 1
          /\ Len(usage_counters[r].hour) > Len(usage_counters[r].min)

(***************************************************************************)
(* Claims about the optimize wrapper                                       *)
(***************************************************************************)

\* C2: an invocation of a function wrapped by optimize(max_retries = N) in
\* which every verify call fails makes exactly N + 1 verify attempts and then
\* propagates RateLimitExceeded, without running the wrapped function.
C2_RetryBound ==
    LET w == wres[MainThread] IN
    (w.status # "none" /\ w.ran = "no") =>
        /\ w.attempts = max_retries + 1
        /\ w.status = "raised"
        /\ w.value = "RateLimitExceeded"

\* the function-call metrics recorded by the thread's current invocation
FunctionMetrics(self) == SelectSeq(emitted[self], LAMBDA m : m.kind = "function")

\* C10 as claimed: when the wrapped function raises, exactly one function-call
\* metric with success = false and the exception's text is recorded and the
\* same exception propagates; when it returns, exactly one with success = true
\* is recorded and the result is returned.
C10_ExceptionTextAlways ==
    LET w == wres[MainThread]
        fm == FunctionMetrics(MainThread)
    IN  w.ran # "no" =>
          /\ Len(fm) = 1
          /\ IF w.ran = "return"
             THEN fm[1].flag /\ fm[1].error = "None" /\ w.status = "returned"
             ELSE /\ ~fm[1].flag
                  /\ fm[1].error = "exception_text"
                  /\ w.status = "raised" /\ w.value = w.ran

\* C10 (amended): when the wrapped function raises, exactly one function-call
\* metric with success = false is recorded, carrying the exception's text if
\* the exception derives from Exception and no error text otherwise, and the
\* same exception propagates; when it returns, exactly one with success = true
\* is recorded and the result is returned.
C10_MetricOnOutcome ==
    LET w == wres[MainThread]
        fm == FunctionMetrics(MainThread)
    IN  w.ran # "no" =>
          /\ Len(fm) = 1
          /\ IF w.ran = "return"
             THEN fm[1].flag /\ fm[1].error = "None" /\ w.status = "returned"
             ELSE /\ ~fm[1].flag
                  /\ fm[1].error =
                        (IF w.ran = "raise_Exception" THEN "exception_text" ELSE "None")
                  /\ w.status = "raised" /\ w.value = w.ran

\* the wrapped function raised in an invocation that also triggered content,
\* so a second record (ad_opportunity) follows the function-call metric
C10_Witness ==
    /\ wres[MainThread].ran = "raise_Exception"
    /\ \E i \in DOMAIN emitted[MainThread] : emitted[MainThread][i].kind = "ad_opportunity"

\* C12: in one invocation of the wrapped function, the function is executed
\* at most once, and only after a verify call made by that invocation has
\* returned True; an invocation none of whose verify calls succeeded does
\* not execute it.
C12_ExecAfterVerify ==
    LET t == MainThread
        executions == Len(FunctionMetrics(t))
    IN  /\ executions <= 1
        /\ (wres[t].ran # "no") <=> (executions = 1)
        /\ (wpc[t] = "w_exec" \/ executions = 1) =>
               /\ gres[t].op = "verify" /\ gres[t].outcome = "ok"
               /\ gres[t].t >= wl[t].current_time
               /\ wl[t].attempts >= 1

\* the function has run in an invocation that came after the minute limit
\* had been reached and the window had moved on
C12_Witness ==
    /\ wres[MainThread].ran = "return"
    /\ Len(accepted[WrappedResource]) > MinLimit

\* w is what is left of the history h once some of its oldest entries are gone
IsSuffix(w, h) == Len(w) <= Len(h) /\ w = SubSeq(h, Len(h) - Len(w) + 1, Len(h))

\* C13: the windows of a resource hold timestamps of accepted verify calls
\* only, each of them once: a rejected call (minute or hour limit) leaves the
\* windows without its timestamp, and an accepted call has appended its
\* timestamp once to the minute window and once to the hour window.
C13_StampOnlyOnAccept ==
    LET c == MainThread
        r == gres[c].r
        t == gres[c].t
        min == usage_counters[r].min
        hour == usage_counters[r].hour
        acc == accepted[r]
    IN  (gpc[c] = "returned" /\ gres[c].op = "verify") =>
          /\ IsSuffix(min, acc) /\ IsSuffix(hour, acc)
          /\ min = SelectSeq(acc, LAMBDA x : x > t - MinuteWindow)
          /\ Purge(hour, t - HourWindow) = SelectSeq(acc, LAMBDA x : x > t - HourWindow)
          /\ gres[c].outcome = "ok" =>
                /\ min # <<>> /\ min[Len(min)] = t
                /\ hour # <<>> /\ hour[Len(hour)] = t

\* a call was rejected in the same second in which another had been accepted
C13_Witness ==
    /\ gpc[MainThread] = "returned"
    /\ gres[MainThread].op = "verify"
    /\ gres[MainThread].outcome \in {"min", "hour"}
    /\ accepted[gres[MainThread].r] # <<>>
    /\ accepted[gres[MainThread].r][Len(accepted[gres[MainThread].r])] = gres[MainThread].t

\* no timestamp of the window is at or before the cutoff
Purged(window, cutoff) == \A i \in DOMAIN window : window[i] > cutoff

PctGeq(p, q) == p[1] * q[2] >= q[1] * p[2]
PctEq(p, q) == p[1] * q[2] = q[1] * p[2]

\* C15: usage(resource) called at time t returns the larger of (accepted
\* calls in (t - 60, t] / minute limit) and (accepted calls in (t - 3600, t] /
\* hour limit) as a percentage, and the windows hold those in-window
\* timestamps afterwards and nothing else: usage adds no timestamp.
C15_UsageIsLargerPercentage ==
    LET c == MainThread
        r == gres[c].r
        t == gres[c].t
        acc == accepted[r]
        inMin == SelectSeq(acc, LAMBDA x : x > t - MinuteWindow)
        inHour == SelectSeq(acc, LAMBDA x : x > t - HourWindow)
        pmin == <<100 * Len(inMin), MinLimit>>
        phour == <<100 * Len(inHour), HourLimit>>
        ret == gl[c].pct
    IN  (gpc[c] = "returned" /\ gres[c].op = "usage") =>
          /\ PctGeq(ret, pmin) /\ PctGeq(ret, phour)
          /\ PctEq(ret, pmin) \/ PctEq(ret, phour)
          /\ usage_counters[r].min = inMin
          /\ usage_counters[r].hour = inHour

\* usage was called when the minute window had emptied and the hour window
\* still held two calls: the hour percentage is the one returned
C15_Witness ==
    /\ gpc[MainThread] = "returned"
    /\ gres[MainThread].op = "usage"
    /\ gl[MainThread].mu = 0
    /\ gl[MainThread].hu = 2
    /\ gl[MainThread].pct = <<200, HourLimit>>

\* C16: promotional content is presented at most once per session of the
\* wrapped function, whether triggered by loop detection or by a rate limit
\* error: among the presentations, at most one was made since the start of
\* the current session (a session ends when an invocation finds more than
\* 1800 seconds passed since its start, which starts the next one).
C16_OncePerSession ==
    /\ Cardinality({i \in DOMAIN shown : shown[i] >= session_start_time}) <= 1
    /\ \A i \in DOMAIN shown : i < Len(shown) => shown[i] < session_start_time

\* content was presented in a first session and, more than ad_cooldown later
\* and still within that session, another loop was detected; and content has
\* been presented once more in a later session
C16_Witness ==
    /\ Len(shown) = 2
    /\ shown[1] = Epoch
    /\ shown[2] = Epoch + 200 + 3540

\* the invocations, this one included, whose call time lies within time_window
\* seconds before t
RecentInvocations(t) ==
    {i \in DOMAIN invoked : invoked[i] <= t /\ t - invoked[i] <= TimeWindow}

\* C17: an invocation at time t is flagged loop_detected if and only if at
\* least loop_threshold invocations of the wrapped function, this one
\* included, have call times within time_window seconds before t.
C17_LoopDetected ==
    \A t \in Callers :
       wpc[t] \in {"w_verify", "w_verifying", "w_exec"} =>
          (wl[t].loop_detected <=>
             Cardinality(RecentInvocations(wl[t].current_time)) >= LoopThreshold)

\* an invocation is flagged although the function has also been invoked
\* earlier than time_window before it, and the oldest invocation it counts
\* lies exactly time_window back
C17_Witness ==
    /\ wpc[MainThread] = "w_verify"
    /\ wl[MainThread].loop_detected
    /\ \E i \in DOMAIN invoked : wl[MainThread].current_time - invoked[i] > TimeWindow
    /\ \E i \in DOMAIN invoked : wl[MainThread].current_time - invoked[i] = TimeWindow


\* C23: when a verify attempt inside the wrapper is rejected and retries
\* remain, the wrapper sleeps min(backoff_factor ** r, retry_after) seconds,
\* r being the retries already made in this invocation, and then makes the
\* next attempt.
C23_BackoffSleep ==
    [][\A t \in Callers :
          (/\ wpc[t] = "w_verifying" /\ wpc'[t] # "w_verifying"
           /\ gres[t].outcome # "ok"
           /\ wl[t].retries < max_retries) =>
             /\ wpc'[t] = "w_loop"
             /\ wl'[t].retries = wl[t].retries + 1
             /\ wl'[t].slept =
                   Append(wl[t].slept, WaitTime(wl[t].retries, gres[t].retry_after))
      ]_vars

\* the number of consecutive most recent passes of p that were flagged, since
\* the last unflagged pass or the last pass that triggered content
RECURSIVE TrailingFlagged(_)
TrailingFlagged(p) ==
    IF p = <<>> THEN 0
    ELSE LET last == p[Len(p)] IN
         IF last.triggered \/ ~last.flagged THEN 0
         ELSE 1 + TrailingFlagged(SubSeq(p, 1, Len(p) - 1))

\* C24: after each pass through the loop-detection step the consecutive-loop
\* counter equals the number of consecutive most recent passes flagged
\* loop_detected since the last unflagged pass or the last content trigger.
C24_ConsecutiveCounter ==
    consecutive_loop_detections = TrailingFlagged(passes)

\* two flagged passes in a row have been counted after content had been
\* triggered earlier in the session, and some earlier pass was not flagged
C24_Witness ==
    /\ consecutive_loop_detections = 2
    /\ \E i \in DOMAIN passes : passes[i].triggered
    /\ \E i \in DOMAIN passes : ~passes[i].flagged

\* C25: any two presentations of promotional content by one wrapper are at
\* least ad_cooldown seconds apart, also when a session reset lies between
\* them.
C25_CooldownBetweenDisplays ==
    \A i, j \in DOMAIN shown : i < j => shown[j] - shown[i] >= AdCooldown

\* content was presented in the last second of a session; five seconds later
\* a new session has begun (nothing displayed in it yet) and a loop has been
\* detected again, within ad_cooldown of that presentation
C25_Witness ==
    /\ shown = <<Epoch + 1799>>
    /\ session_start_time = Epoch + 1799 + 5
    /\ ~session_displayed
    /\ passes # <<>> /\ passes[Len(passes)].flagged
    /\ consecutive_loop_detections >= ContentTriggerThreshold

(***************************************************************************)
(* Claims about the Conduit                                                *)
(***************************************************************************)

\* the records of a buffer (or of a snapshot of it), category after category
Flat(b) == b.function_calls \o b.api_requests \o b.rate_limits

RECURSIVE FlatPayloads(_)
FlatPayloads(ps) ==
    IF ps = <<>> THEN <<>> ELSE Flat(Head(ps).data) \o FlatPayloads(Tail(ps))

\* the snapshot of a dispatch that has cleared the buffer and is about to
\* build its payload from it
Snapshot(t) == IF rpc[t] = "d_build" THEN Flat(rl[t].data_to_send) ELSE <<>>

\* every record the Conduit holds: in the buffer, in a built payload, or in
\* the snapshot a payload is about to be built from
Held ==
    Flat(buffer) \o FlatPayloads(payloads)
        \o Snapshot("t1") \o Snapshot("t2")
        \o Snapshot("d1") \o Snapshot("d2") \o Snapshot("d3")

\* C3: with an endpoint configured, under every interleaving of enqueues and
\* dispatch calls each enqueued record is either still in the buffer or in
\* exactly one payload: never in two payloads, never dropped from the buffer
\* without being in a payload.
C3_FlushAtomic ==
    LET held == Held IN
    \A id \in 1..(next_id - 1) :
        Cardinality({i \in DOMAIN held : held[i].id = id}) = 1

\* a record was enqueued while one dispatch had its payload in flight, and a
\* second dispatch is about to take the lock
C3_Witness ==
    /\ Len(payloads) >= 1
    /\ TotalRecords(buffer) > 0
    /\ \E t \in Threads : rpc[t] = "d_send"
    /\ \E t \in Threads : rpc[t] = "d_lock"

\* the last n elements of q
LastN(q, n) == SubSeq(q, Len(q) - n + 1, Len(q))

\* C4: after N dispatch calls made one after the other whose transmissions all
\* failed, with no retry_failed, the failed-send queue holds exactly the
\* min(N, 10) most recently built payloads, in the order they were built.
C4_FailedQueueKeepsLast10 ==
    (retry_calls = 0 /\ rpc[MainThread] = "idle") =>
        failed_queue = LastN(payloads, Min2(Len(payloads), FailedQueueMax))

\* more than 10 dispatch calls have failed, so the oldest payloads were dropped
C4_Witness ==
    /\ retry_calls = 0
    /\ rpc[MainThread] = "idle"
    /\ Len(payloads) > FailedQueueMax
    /\ Len(failed_queue) = FailedQueueMax

\* C5: in every reachable state, under any interleaving of dispatch and
\* retry_failed calls, the failed-send queue holds at most 10 payloads.
C5_FailedQueueBounded == Len(failed_queue) <= FailedQueueMax

\* C11: dispatch never raises to its caller.  A dispatch that transmitted
\* returns true exactly when the webhook answered 200 (the failed-send queue
\* is then left alone); after any other outcome (another status, a network
\* error, a timeout) it returns false and the payload it built is then the
\* newest entry of the failed-send queue.
C11_DispatchReturn ==
    [][\A t \in Callers :
          /\ (rpc[t] = "d_send" /\ rpc'[t] = "idle") =>
                /\ rres'[t] = [op |-> "dispatch", val |-> 1]
                /\ rl'[t].response = "200"
                /\ failed_queue' = failed_queue
          /\ (rpc[t] = "d_send" /\ rpc'[t] # "idle") =>
                /\ rpc'[t] = "d_failed"
                /\ rl'[t].response \in SendOutcomes \ {"200"}
          /\ (rpc[t] = "d_failed" /\ rpc'[t] # "d_failed") =>
                /\ rpc'[t] = "idle"
                /\ rres'[t] = [op |-> "dispatch", val |-> 0]
                /\ failed_queue' # <<>>
                /\ failed_queue'[Len(failed_queue')] = rl[t].payload
      ]_vars

\* a dispatch whose transmission timed out has returned false, after an
\* earlier dispatch had failed in the network: both payloads are queued
C11_Witness ==
    /\ rpc[MainThread] = "idle"
    /\ rres[MainThread] = [op |-> "dispatch", val |-> 0]
    /\ rl[MainThread].response = "timeout"
    /\ Len(failed_queue) >= 2
    /\ failed_queue[Len(failed_queue)] = payloads[Len(payloads)]

\* the payloads of the attempts a, in the order they were made
AttemptedPayloads(a) == [i \in DOMAIN a |-> a[i].payload]

\* the attempts of a that did not end in a 200 answer
FailedAttempts(a) == SelectSeq(a, LAMBDA x : x.outcome # "200")

\* C20: retry_failed, run with no concurrent dispatch, attempts each payload
\* of the failed-send queue exactly once (in queue order), returns the number
\* of payloads whose re-send succeeded, and leaves in the queue exactly the
\* payloads whose re-send failed, in their original relative order; on an empty
\* queue it returns 0 at once.
C20_RetryFailed ==
    [][/\ \A t \in Callers :
          /\ (rpc[t] = "r_loop" /\ rpc'[t] = "idle") =>
                LET a == rl[t].attempts
                IN  /\ AttemptedPayloads(a) = rl[t].to_retry
                    /\ rres'[t] = [op |-> "retry_failed",
                                   val |-> Len(a) - Len(FailedAttempts(a))]
                    /\ failed_queue' = AttemptedPayloads(FailedAttempts(a))
          /\ (rpc[t] = "r_take" /\ rpc'[t] # "r_take") =>
                /\ rl'[t].to_retry = failed_queue
                /\ rl'[t].to_retry # <<>>
       /\ (retry_calls' # retry_calls /\ rpc'[MainThread] = "idle") =>
             /\ failed_queue = <<>>
             /\ failed_queue' = <<>>
             /\ rres'[MainThread] = [op |-> "retry_failed", val |-> 0]
      ]_vars

\* retry_failed has returned 1 after re-sending three payloads: the second
\* went through, the first and the third are back in the queue in that order
C20_Witness ==
    /\ rpc[MainThread] = "idle"
    /\ rres[MainThread] = [op |-> "retry_failed", val |-> 1]
    /\ Len(payloads) = 3
    /\ failed_queue = <<payloads[1], payloads[3]>>

\* how many times the record with identity id occurs in the sequence q
Occurrences(q, id) == Cardinality({i \in DOMAIN q : q[i].id = id})

\* the record with identity id is part of a payload dispatch has built
InPayload(id) ==
    \E p \in DOMAIN payloads : Occurrences(Flat(payloads[p].data), id) >= 1

\* C21: with an endpoint configured and the periodic sync thread scheduled
\* fairly, every record enqueued into the Conduit is eventually removed from
\* the buffer and part of a built payload, although no size, event or random
\* trigger ever fires.
C21_EventuallyDispatched ==
    \A id \in 1..MaxRecordsL :
        (id < next_id) ~> (InPayload(id) /\ Occurrences(Flat(buffer), id) = 0)

\* every record of the run has left the buffer in a payload of the periodic
\* sync thread; no trigger has started a dispatch thread
C21_Witness ==
    /\ next_id > MaxRecordsL
    /\ AllEmpty(buffer)
    /\ payloads # <<>>
    /\ \A p \in DOMAIN payloads : payloads[p].reason = "periodic"
    /\ \A id \in 1..(next_id - 1) : InPayload(id)

\* this step is an enqueue into category cat
EnqueueInto(cat) ==
    /\ next_id' = next_id + 1
    /\ Len(buffer'[cat]) = Len(buffer[cat]) + 1

\* this step starts a dispatch thread
DispatchStarted == \E d \in Dispatchers : rpc[d] = "idle" /\ rpc'[d] = "d_call"

\* some buffered rate-limit record of b is flagged is_exceeded
SomeExceeded(b) == \E i \in DOMAIN b.rate_limits : b.rate_limits[i].flag

\* some buffered function-call record of b is flagged not successful
SomeFailed(b) == \E i \in DOMAIN b.function_calls : ~b.function_calls[i].flag

\* C27 (as stated): after every enqueue a dispatch is started whenever the
\* combined size of the buffers is >= buffer_size, or some buffered rate-limit
\* record is flagged is_exceeded, or some buffered function-call record is
\* flagged not successful.
C27_TriggersOnBufferContent ==
    [][\A cat \in Categories :
          (EnqueueInto(cat) /\ (\/ TotalRecords(buffer') >= buffer_size
                                \/ SomeExceeded(buffer')
                                \/ SomeFailed(buffer'))) => DispatchStarted
      ]_vars

\* C27 (amended): after every enqueue a dispatch is started whenever the
\* combined size of the buffers is >= buffer_size, or the enqueue was of a
\* rate-limit record and some buffered rate-limit record is flagged
\* is_exceeded, or the enqueue was of a function-call record and some buffered
\* function-call record is flagged not successful.
C27_TriggersOnEnqueuedCategory ==
    [][\A cat \in Categories :
          (EnqueueInto(cat) /\ (\/ TotalRecords(buffer') >= buffer_size
                                \/ cat = "rate_limits" /\ SomeExceeded(buffer')
                                \/ cat = "function_calls" /\ SomeFailed(buffer')))
             => DispatchStarted
      ]_vars

\* a successful function call has been enqueued behind a failed one that is
\* still buffered, below buffer_size, and both enqueues started a dispatch
C27_Witness ==
    /\ TotalRecords(buffer) = 2 /\ TotalRecords(buffer) < buffer_size
    /\ Len(buffer.function_calls) = 2
    /\ ~buffer.function_calls[1].flag /\ buffer.function_calls[2].flag
    /\ \A j \in DOMAIN TriggerThreads :
          /\ rpc[TriggerThreads[j]] = "d_call"
          /\ rl[TriggerThreads[j]].reason = "function_error"

\* the buffer the claim names for a package of declared type t
ClaimedCategory(t) ==
    CASE t = "function" -> "function_calls"
      [] t = "api_request" -> "api_requests"
      [] t = "rate_limit" -> "rate_limits"
      [] OTHER -> "function_calls"

\* this step of thread t is an add_* call of queue that appends one record to
\* the buffer of category cat and leaves the other buffers alone
QueueAdds(t, cat) ==
    /\ Len(buffer'[cat]) = Len(buffer[cat]) + 1
    /\ buffer'[cat][Len(buffer'[cat])].id = next_id
    /\ \A c \in Categories \ {cat} : buffer'[c] = buffer[c]

\* this step of thread t is the return of its queue call
QueueReturns(t) == qpc[t] # "idle" /\ qpc'[t] = "idle"

\* C28 (as stated): queue places the data of a non-empty package into exactly
\* one category buffer, chosen by its declared type ("function" into
\* function_calls, "api_request" into api_requests, "rate_limit" into
\* rate_limits, anything else or no type into function_calls), and then
\* returns true.
C28_OneBufferPerPackage ==
    [][\A t \in Callers :
          /\ (qpc[t] = "q_item" /\ next_id' # next_id) =>
                QueueAdds(t, ClaimedCategory(ql[t].package.type))
          /\ (qpc[t] = "q_item" /\ qpc'[t] # "q_item") => ql[t].i - 1 = 1
          /\ QueueReturns(t) => ql'[t].ret = "True"
      ]_vars

\* C28 (amended): a non-empty package of a type other than "metrics" is
\* placed into exactly one buffer, chosen as above; of a package of type
\* "metrics" every item listed under "function", "rate_limit" or "request" is
\* placed into function_calls, rate_limits or api_requests, and nothing else
\* is; queue then returns true.
C28_RoutedByType ==
    [][\A t \in Callers :
          LET p == ql[t].package
              key == ql[t].route[ql[t].i].key
          IN
          /\ (qpc[t] = "q_item" /\ next_id' # next_id /\ p.type # "metrics") =>
                QueueAdds(t, ClaimedCategory(p.type))
          /\ (qpc[t] = "q_item" /\ next_id' # next_id /\ p.type = "metrics") =>
                /\ key \in {"function", "rate_limit", "request"}
                /\ QueueAdds(t, CASE key = "function" -> "function_calls"
                                   [] key = "rate_limit" -> "rate_limits"
                                   [] key = "request" -> "api_requests")
          /\ (qpc[t] = "q_item" /\ qpc'[t] # "q_item") =>
                ql[t].i - 1 = IF p.type = "metrics"
                              THEN Cardinality({k \in DOMAIN p.keys : p.keys[k] \in
                                                  {"function", "rate_limit", "request"}})
                              ELSE 1
          /\ QueueReturns(t) => ql'[t].ret = "True"
      ]_vars

\* queue has returned true for a high-priority package of type "metrics":
\* its item listed under "function" and its item listed under "request" went
\* into two buffers, and the dispatch queue called has built a payload of both
C28_Witness ==
    /\ qpc[MainThread] = "idle"
    /\ ql[MainThread].ret = "True"
    /\ \E p \in DOMAIN payloads :
          /\ payloads[p].reason = "high_priority"
          /\ Len(payloads[p].data.function_calls) = 1
          /\ Len(payloads[p].data.api_requests) = 1
          /\ payloads[p].data.function_calls[1].src = "item"
          /\ payloads[p].data.api_requests[1].src = "item"

\* thread t is inside self._send_data(payload), the transmission of dispatch
Transmitting(t) == rpc[t] = "d_send"

\* a record is enqueued in this step (add_function_call, add_api_request or
\* add_rate_limit ran to completion)
EnqueueCompletes == next_id' = next_id + 1

\* C29: the Conduit's lock is not held while a payload is being transmitted:
\* a thread that is transmitting does not hold the lock, and an enqueue that
\* takes place while a dispatch is transmitting completes with that dispatch
\* still transmitting, leaves the payload in flight as it was, without the new
\* record, and puts the record into the buffer for the next dispatch.
C29_LockFreeTransmission ==
    /\ [](\A t \in Threads : Transmitting(t) => rlock # t)
    /\ [][\A t \in Threads :
            (Transmitting(t) /\ EnqueueCompletes)
            => /\ rpc'[t] = rpc[t]
               /\ rl'[t].payload = rl[t].payload
               /\ Occurrences(Flat(rl'[t].payload.data), next_id) = 0
               /\ Occurrences(Flat(buffer'), next_id) = 1]_vars

\* a dispatch is transmitting a payload with a record in it, nobody holds the
\* lock, and the buffer holds a record enqueued after the snapshot was taken
C29_Witness ==
    \E t \in Threads :
       /\ Transmitting(t)
       /\ rlock = "none"
       /\ Flat(rl[t].payload.data) # <<>>
       /\ \E i \in DOMAIN Flat(buffer) :
             /\ Occurrences(Flat(rl[t].payload.data), Flat(buffer)[i].id) = 0
             /\ \A k \in DOMAIN Flat(rl[t].payload.data) :
                   Flat(rl[t].payload.data)[k].id < Flat(buffer)[i].id

\* thread t leaves the locked section of dispatch in this step: it has
\* replaced the buffers by empty ones and counted the sync
Snapshotted(t) == rpc[t] = "d_clear" /\ rpc'[t] = "d_build"

\* C33: each payload dispatch builds carries in metadata.sync_count the value
\* the sync counter took when that dispatch snapshotted the buffer, so the
\* payloads built by different dispatch calls, concurrent ones included,
\* carry pairwise distinct sync_count values; and the counter increases by
\* exactly one per dispatch that found a non-empty buffer, and not otherwise.
C33_DistinctSyncCounts ==
    /\ [](\A p, q \in DOMAIN payloads :
              p # q => payloads[p].sync_count # payloads[q].sync_count)
    /\ [][/\ (\E t \in Threads : Snapshotted(t)) => sync_count' = sync_count + 1
          /\ sync_count' # sync_count => \E t \in Threads : Snapshotted(t)]_vars

\* thread t is in a dispatch call that has not passed its two early returns
\* (or is about to enter one), and takes a step of that part of the call
BeforeSnapshot(t) ==
    /\ rpc[t] \in {"idle", "d_call", "d_lock"}
    /\ rpc'[t] \in {"idle", "d_call", "d_lock"}
    /\ rpc'[t] # rpc[t]

ReturnsFalse(t) == rpc'[t] = "idle" /\ rres'[t] = [op |-> "dispatch", val |-> 0]

\* C34: dispatch called with no endpoint configured, or with all three
\* buffers empty, returns false and leaves the buffers, the sync counter, the
\* last-sync time and the failed-send queue unchanged: buffered records are
\* retained.  (One caller; the steps of the call up to its return are the
\* only steps taken in between.)
C34_DispatchNoop ==
    [][\A t \in Callers :
          /\ BeforeSnapshot(t) =>
                 UNCHANGED <<buffer, sync_count, last_sync_time, failed_queue>>
          /\ (rpc[t] = "d_call" /\ webhook_url = "None") => ReturnsFalse(t)
          /\ (rpc[t] = "d_lock" /\ rpc'[t] # rpc[t] /\ TotalRecords(buffer) = 0)
                 => ReturnsFalse(t)]_vars

\* a dispatch has returned false for want of an endpoint: the record in the
\* buffer is still there, and the counter, the last-sync time and the
\* failed-send queue are as the earlier, failed dispatch left them
C34_Witness ==
    /\ rpc[MainThread] = "idle"
    /\ rres[MainThread] = [op |-> "dispatch", val |-> 0]
    /\ webhook_url = "None"
    /\ TotalRecords(buffer) = 1
    /\ sync_count = 1
    /\ last_sync_time = now
    /\ Len(failed_queue) = 1
    /\ Occurrences(Flat(failed_queue[1].data), 1) = 1
    /\ Occurrences(Flat(buffer), 2) = 1

(***************************************************************************)
(* Claims about the Collector                                              *)
(***************************************************************************)

\* the metrics the Collector currently buffers, kind after kind
Buffered ==
    lists[metrics["function"]] \o lists[metrics["rate_limit"]]
        \o lists[metrics["request"]] \o lists[metrics["error"]]

\* C9: under concurrent callers of record, every recorded metric of a kind
\* that has a track_* function is forwarded to the Conduit exactly once: it is
\* never in the Conduit's buffers twice, and once every record call has
\* returned it is either there once or still buffered by the Collector (not
\* dropped by a list reset).
C9_ForwardedExactlyOnce ==
    \A n \in DOMAIN recorded :
        recorded[n].metric_type # "error" =>
            /\ Occurrences(Flat(buffer), n) <= 1
            /\ (\A c \in Callers : cpc[c] = "idle") =>
                   Occurrences(Flat(buffer), n) + Occurrences(Buffered, n) = 1

\* C18: record flushes when the total number of buffered metrics reaches
\* buffer_size, and whenever the priority is "high" or the kind is "error":
\* when a record call returns, the Collector holds fewer than buffer_size
\* metrics, and none if the call was of high priority or of kind "error".
\* (One caller; overlapping callers are the subject of C9.)
C18_FlushOnReturn ==
    [][\A t \in Callers :
          (cpc[t] # "idle" /\ cpc'[t] = "idle") =>
             /\ TotalMetrics' < MetricsBufferSize
             /\ (cl[t].priority = "high" \/ cl[t].metric_type = "error") =>
                    TotalMetrics' = 0]_vars

\* buffer_size calls of ordinary priority have returned, none of them of kind
\* "error", and the last one has left the Collector empty: it flushed
\* because the total had reached buffer_size
C18_Witness ==
    /\ cpc[MainThread] = "idle"
    /\ Len(recorded) = MetricsBufferSize
    /\ \A n \in DOMAIN recorded :
          recorded[n].metric_type \in {"function", "request", "system_info"}
    /\ TotalMetrics = 0

\* C19: every metric the Collector has cleared in a flush has been handed to
\* the Conduit by that flush, whatever its kind (error metrics included):
\* with a single caller, a recorded metric the Collector no longer holds is in
\* one of the Conduit's buffers.
C19_ClearedWereForwarded ==
    \A n \in DOMAIN recorded :
        Occurrences(Buffered, n) = 0 => Occurrences(Flat(buffer), n) >= 1

\* the Conduit buffer a metric of the given kind is said to end up in
ClaimedBuffer(metric_type) ==
    CASE metric_type = "function" -> "function_calls"
      [] metric_type = "rate_limit" -> "rate_limits"
      [] metric_type = "request" -> "api_requests"
      [] OTHER -> "function_calls"

\* the Collector list a metric of the given kind is said to be stored in
ClaimedList(metric_type) ==
    IF metric_type \in {"rate_limit", "request"} THEN metric_type ELSE "function"

\* C30: a metric passed to record keeps its category through a flush: kind
\* "function" reaches the Conduit's function_calls buffer, "rate_limit"
\* reaches rate_limits, "request" reaches api_requests, and a metric of a
\* kind the Collector has no list for is stored with the function metrics
\* and reaches function_calls.  A recorded metric is in no other list of the
\* Collector and in no other buffer of the Conduit, and once the Collector
\* no longer holds it, it is in that buffer, once.
C30_CategoryKept ==
    \A n \in DOMAIN recorded :
        recorded[n].metric_type # "error" =>
            /\ \A k \in Kinds \ {ClaimedList(recorded[n].metric_type)} :
                   Occurrences(lists[metrics[k]], n) = 0
            /\ \A c \in Categories \ {ClaimedBuffer(recorded[n].metric_type)} :
                   Occurrences(buffer[c], n) = 0
            /\ Occurrences(Buffered, n) = 0 =>
                   Occurrences(buffer[ClaimedBuffer(recorded[n].metric_type)], n) = 1

\* every call has returned, the Collector is empty, and the Conduit holds a
\* request metric in api_requests, a rate-limit metric in rate_limits and a
\* metric of a kind the Collector has no list for in function_calls
C30_Witness ==
    /\ cpc[MainThread] = "idle"
    /\ TotalMetrics = 0
    /\ \E n \in DOMAIN recorded :
          recorded[n].metric_type = "system_info"
              /\ Occurrences(buffer.function_calls, n) = 1
    /\ \E n \in DOMAIN recorded :
          recorded[n].metric_type = "rate_limit"
              /\ Occurrences(buffer.rate_limits, n) = 1
    /\ \E n \in DOMAIN recorded :
          recorded[n].metric_type = "request"
              /\ Occurrences(buffer.api_requests, n) = 1

(***************************************************************************)
(* Claims about the Buffer                                                 *)
(***************************************************************************)

\* C35: every call to Buffer.add, clear, get and size terminates and returns:
\* no call blocks forever waiting for the Buffer's own lock, an add that
\* brings the length to a multiple of 100 and any clear included (both save a
\* backup while inside the locked section).
C35_BufferCallsReturn ==
    \A t \in Callers : (bpc[t] # "idle") ~> (bpc[t] = "idle")

(***************************************************************************)
(* Claims about the Monitor                                                *)
(***************************************************************************)

\* how many metrics had been recorded when the previous check_health looked
PreviousMark == IF checked = <<>> THEN 0 ELSE checked[Len(checked)]

\* an error metric was passed to Collector.record after the previous
\* check_health looked and before the check_health of thread t did
ErrorRecordedSince(t) ==
    \E n \in (PreviousMark + 1)..ml[t].mark : recorded[n].metric_type = "error"

\* the check_health of thread t determines the status in this step
Decides(t) == mpc[t] = "h_usage" /\ mpc'[t] = "idle"

\* C36: if an error metric has been recorded through Collector.record since
\* the previous health check and Guardian.usage() is above 80, check_health
\* sets the status to "critical" and increments error_count; if only one of
\* the two holds it sets "warning".
C36_HealthReflectsErrors ==
    [][\A t \in Callers :
          Decides(t) =>
             LET err == ErrorRecordedSince(t)
                 high == HighUsage(gl[t].pct)
             IN  /\ (err /\ high) =>
                        health_status' = "critical" /\ error_count' = error_count + 1
                 /\ ((err /\ ~high) \/ (~err /\ high)) =>
                        health_status' = "warning"]_vars

(***************************************************************************)
(* Claims about the contract codes                                         *)
(***************************************************************************)

\* C37: vn30_abbrev_contract inverts vn30_expand_contract: for every
\* reference date and every abbreviation VN30F<n>M or VN30F<n>Q with n in
\* 1..9 for which vn30_expand_contract returns a code, vn30_abbrev_contract
\* of that code and the same date returns the abbreviation.
C37_AbbrevInvertsExpand ==
    ppc = "done" => back = [raised |-> "none", n |-> abbrev.n, cycle |-> abbrev.cycle]

\* months counted from year 0: the number of a month, its year, its month
MonthNumber(t) == t.year * 12 + (t.month - 1)
YearOf(k) == k \div 12
MonthOf(k) == (k % 12) + 1
IsQuarterMonth(k) == MonthOf(k) \in {3, 6, 9, 12}

\* the n-th quarter month strictly after month number k
NthQuarterAfter(k, n) ==
    CHOOSE q \in (k + 1)..(k + 3 * n) :
        IsQuarterMonth(q) /\ Cardinality({j \in (k + 1)..q : IsQuarterMonth(j)}) = n

\* the contract month the abbreviation stands for on the reference date
ContractMonth(a, t) ==
    IF a.cycle = "M" THEN MonthNumber(t) + (a.n - 1)
    ELSE NthQuarterAfter(MonthNumber(t), a.n)

\* C38: for every reference date and n in 1..9, vn30_expand_contract returns
\* the code VN30FYYMM of a contract month that is not before today's month:
\* for cycle M the month n-1 months after today's month, for cycle Q the
\* n-th quarter month (3, 6, 9, 12) strictly after today's month, with YY
\* advanced by one for each calendar-year boundary crossed.
C38_ExpandGivesContractMonth ==
    ppc # "idle" =>
        LET k == ContractMonth(abbrev, today)
        IN  /\ k >= MonthNumber(today)
            /\ full = [raised |-> "none",
                       text |-> <<(YearOf(k) \div 10) % 10, YearOf(k) % 10,
                                  MonthOf(k) \div 10, MonthOf(k) % 10>>]

=============================================================================
